---------------------------- MODULE Spec2Model ----------------------------
(***************************************************************************)
(* claude-bridge: the stream translator (anthropic/streaming.py) and the   *)
(* process orchestrator (core/cli_wrapper.py) as state machines.           *)
(*                                                                         *)
(* Texts are sequences of characters, dicts are functions whose domain is  *)
(* the set of keys present, and an SSE event is the pair of frames the     *)
(* generator yields for it: the "event: <name>" line, then the "data:" line.*)
(***************************************************************************)
EXTENDS Integers, Sequences, FiniteSets, TLC

VARIABLES
    \* ---- stream_anthropic_response (one session) ----
    pc,               \* "created" | "streaming" | "closing" | "finished"
    suspended,        \* TRUE while the generator is parked at a yield
    consumed,         \* the records pulled from cli_response so far
    pending,          \* frames of the record being processed, not yet yielded
    out,              \* the frames yielded to the consumer so far
    content_started,
    input_tokens,
    output_tokens,
    exit,             \* "none" | "normal" | "error" | "closed"
    temp_files,       \* the attachment temp files of the request
    fs,               \* file -> "present" | "missing" | "locked" | "deleted"
    \* ---- ClaudeCLIWrapper.query (one invocation) ----
    claude_allowed_tools_str,        \* settings, read-only after startup
    claude_allowed_directories_str,
    claude_disallowed_tools_str,
    claude_process_timeout_seconds,
    claude_stream_idle_timeout_seconds,
    claude_process_kill_grace_seconds,
    now,              \* the clock: time.monotonic() and the event loop's time
    qpc,              \* "idle" | "communicating" | "reading" | "yielded" |
                      \* "waiting" | "done"
    stream,
    prompt,
    file_paths,
    spawn_calls,      \* calls of asyncio.create_subprocess_exec
    process,          \* the subprocess: state, args, stdin, input, returncode,
                      \* stdout, stderr, lines, wrote_at, signals
    yielded,          \* the records query has yielded
    failure,          \* the exception query raised, or NoFailure
    last_line_time,   \* streaming: when the last non-blank line was read
    lines_read,       \* streaming: how many stdout lines readline() has returned
    wait_started,     \* when the asyncio.wait_for in progress began
    ensure_timeout,   \* the fire-and-forget ensure_timeout task: pc, since
    timeout_log,      \* the timeout messages logged at warning or error level
    aggregator,       \* cli_response_to_anthropic: pc, seen, content_text,
                      \* input_tokens, output_tokens, model, returned,
                      \* failure
    handler,          \* create_message: pc, request, prompt, system_prompt,
                      \* temp_files, status_code, detail
    requests          \* the streaming requests in flight together, each with
                      \* the locals of its own stream_anthropic_response
                      \* and the pid of its own subprocess

tvars == <<pc, suspended, consumed, pending, out, content_started,
           input_tokens, output_tokens, exit, temp_files, fs>>

settings == <<claude_allowed_tools_str, claude_allowed_directories_str,
              claude_disallowed_tools_str, claude_process_timeout_seconds,
              claude_stream_idle_timeout_seconds,
              claude_process_kill_grace_seconds>>

qvars == <<settings, now, qpc, stream, prompt, file_paths, spawn_calls, process,
           yielded, failure, last_line_time, lines_read, wait_started,
           ensure_timeout, timeout_log>>

hvars == <<aggregator, handler, requests>>

vars == <<tvars, qvars, hvars>>

-----------------------------------------------------------------------------
(* Bounds of the model *)

MaxRecords == 3
MaxFiles == 2
MaxLines == 2
MaxClock == 3
MaxMessages == 3

-----------------------------------------------------------------------------
(* Python helpers *)

\* dict.get(k, default)
Get(d, k, default) == IF k \in DOMAIN d THEN d[k] ELSE default

\* the empty dict {}
EmptyDict == <<>>

\* str.isspace() of one character
IsSpace(c) == c \in {" ", "\n"}

\* len(text.split()): the number of maximal runs of non-whitespace characters
WordCount(text) ==
    Cardinality({i \in 1..Len(text) :
                    /\ ~IsSpace(text[i])
                    /\ (i = 1 \/ IsSpace(text[i - 1]))})

-----------------------------------------------------------------------------
(* Inputs: texts, usage objects and decoded records *)

TextSamples == {<<>>, <<" ">>, <<"a", " ", "b">>}

StreamEvent(ev) == [type |-> "stream_event", event |-> ev]

DeltaRecord(t) ==
    StreamEvent([type |-> "content_block_delta",
                 delta |-> [type |-> "text_delta", text |-> t]])

TextBlock(t) == [type |-> "text", text |-> t]

AssistantRecord(blocks) ==
    [type |-> "assistant", message |-> [content |-> blocks]]

MessageDeltaRecord(u) ==
    StreamEvent([type |-> "message_delta", usage |-> u])

ResultRecord(u) == [type |-> "result", usage |-> u]

\* the real-time grammar (--include-partial-messages)
RealTimeRecords ==
    { StreamEvent([type |-> "message_start"]),
      StreamEvent([type |-> "content_block_start", index |-> 1,
                   content_block |-> [type |-> "text", text |-> <<>>]]),
      StreamEvent([type |-> "content_block_stop", index |-> 0]),
      MessageDeltaRecord([input_tokens |-> 5, output_tokens |-> 10]),
      MessageDeltaRecord([output_tokens |-> 25]) }
    \cup { DeltaRecord(t) : t \in TextSamples }

\* the legacy grammar: whole assistant messages
LegacyRecords ==
    { AssistantRecord(<<>>),
      AssistantRecord(<<TextBlock(<<>>)>>),
      AssistantRecord(<<[type |-> "tool_use"], TextBlock(<<"a", " ", "b">>),
                        TextBlock(<<" ">>)>>),
      [type |-> "assistant",
       message |-> [content |-> <<TextBlock(<<"a", " ", "b">>)>>,
                    usage |-> [input_tokens |-> 8, output_tokens |-> 20]]] }
    \cup { AssistantRecord(<<TextBlock(t)>>) : t \in TextSamples \ {<<>>} }

TerminalRecords ==
    { [type |-> "result", is_error |-> TRUE, result |-> <<"e">>],
      ResultRecord([input_tokens |-> 8, output_tokens |-> 20]) }

\* a chunk that is not a dict (a string, None)
NonDictRecords == { [nondict |-> TRUE] }

RecordSamples ==
    RealTimeRecords \cup LegacyRecords \cup TerminalRecords \cup NonDictRecords

\* isinstance(chunk, dict)
IsDict(chunk) == "nondict" \notin DOMAIN chunk

-----------------------------------------------------------------------------
(* Rendering: the two strings yielded per SSE event *)

content_index == 0

EventLine(name) == [line |-> "event", type |-> name]

MessageStartFrames ==
    << EventLine("message_start"),
       [line |-> "data", type |-> "message_start",
        usage |-> [input_tokens |-> 0, output_tokens |-> 0]] >>

ContentBlockStartFrames(index, block) ==
    << EventLine("content_block_start"),
       [line |-> "data", type |-> "content_block_start",
        index |-> index, content_block |-> block] >>

ContentBlockDeltaFrames(text) ==
    << EventLine("content_block_delta"),
       [line |-> "data", type |-> "content_block_delta",
        index |-> content_index, text |-> text] >>

ContentBlockStopFrames ==
    << EventLine("content_block_stop"),
       [line |-> "data", type |-> "content_block_stop",
        index |-> content_index] >>

MessageDeltaFrames(tokens) ==
    << EventLine("message_delta"),
       [line |-> "data", type |-> "message_delta",
        stop_reason |-> "end_turn", output_tokens |-> tokens] >>

MessageStopFrames ==
    << EventLine("message_stop"),
       [line |-> "data", type |-> "message_stop"] >>

-----------------------------------------------------------------------------
(* stream_anthropic_response: what one record does to the session.  A      *)
(* session value st is [content_started, input_tokens, output_tokens,      *)
(* frames], frames being what the record makes the generator yield.        *)

DefaultContentBlock == [type |-> "text", text |-> <<>>]

Session(started, inTok, outTok, frames) ==
    [content_started |-> started, input_tokens |-> inTok,
     output_tokens |-> outTok, frames |-> frames]

Emit(st, frames) == [st EXCEPT !.frames = st.frames \o frames]

\* usage added to the running counts instead of replacing them
ApplyUsageSummed(st, usage) ==
    [st EXCEPT !.input_tokens = st.input_tokens + Get(usage, "input_tokens", 0),
               !.output_tokens = st.output_tokens + Get(usage, "output_tokens", 0)]

\* input_tokens = usage.get("input_tokens", input_tokens), and the same for
\* output_tokens: a later value overwrites, a missing key keeps the count
ApplyUsage(st, usage) ==
    [st EXCEPT !.input_tokens = Get(usage, "input_tokens", st.input_tokens),
               !.output_tokens = Get(usage, "output_tokens", st.output_tokens)]

\* a translator that sends the text and leaves the count alone
EmitTextUncounted(st, text) ==
    IF text # <<>> THEN Emit(st, ContentBlockDeltaFrames(text)) ELSE st

\* if text: output_tokens += len(text.split()); yield content_block_delta
EmitText(st, text) ==
    IF text # <<>>
    THEN Emit([st EXCEPT !.output_tokens = st.output_tokens + WordCount(text)],
              ContentBlockDeltaFrames(text))
    ELSE st

\* a translator that forwards every content_block_start of the CLI
OnContentBlockStartEvery(st, event) ==
    Emit([st EXCEPT !.content_started = TRUE],
         ContentBlockStartFrames(
             Get(event, "index", 0),
             Get(event, "content_block", DefaultContentBlock)))

\* the content_block_start inner event: forwarded once, with the CLI's own
\* index and content_block
OnContentBlockStart(st, event) ==
    IF ~st.content_started
    THEN Emit([st EXCEPT !.content_started = TRUE],
              ContentBlockStartFrames(
                  Get(event, "index", 0),
                  Get(event, "content_block", DefaultContentBlock)))
    ELSE st

\* the content_block_delta inner event: content_block_start before the first
\* delta, then the delta if its text is not empty
OnContentBlockDelta(st, event) ==
    LET opened == IF ~st.content_started
                  THEN Emit([st EXCEPT !.content_started = TRUE],
                            ContentBlockStartFrames(content_index,
                                                    DefaultContentBlock))
                  ELSE st
        delta == Get(event, "delta", EmptyDict)
    IN  EmitText(opened, Get(delta, "text", <<>>))

\* the message_delta inner event
OnMessageDelta(st, event) == ApplyUsage(st, Get(event, "usage", EmptyDict))

\* a translator that sends a message_start for each one of the CLI
OnMessageStartForwarded(st, event) == Emit(st, MessageStartFrames)

\* the message_start inner event: "continue", message_start was sent ahead of
\* the loop
OnMessageStart(st, event) == st

\* a translator that passes the CLI's content_block_stop on
OnContentBlockStopForwarded(st, event) ==
    IF st.content_started THEN Emit(st, ContentBlockStopFrames) ELSE st

\* the content_block_stop inner event: "continue", the stop is sent after the
\* loop
OnContentBlockStop(st, event) == st

OnStreamEvent(st, chunk) ==
    LET event == Get(chunk, "event", EmptyDict)
        event_type == Get(event, "type", "")
    IN  CASE event_type = "message_start" -> OnMessageStart(st, event)
          [] event_type = "content_block_start" -> OnContentBlockStart(st, event)
          [] event_type = "content_block_delta" -> OnContentBlockDelta(st, event)
          [] event_type = "content_block_stop" -> OnContentBlockStop(st, event)
          [] event_type = "message_delta" -> OnMessageDelta(st, event)
          [] OTHER -> st

\* for block in content: a delta per text block whose text is not empty
RECURSIVE EmitBlocks(_, _)
EmitBlocks(st, content) ==
    IF content = <<>>
    THEN st
    ELSE LET block == Head(content)
             next == IF Get(block, "type", "") = "text"
                     THEN EmitText(st, Get(block, "text", <<>>))
                     ELSE st
         IN  EmitBlocks(next, Tail(content))

\* an assistant branch that never opens the content block itself
AssistantOpenNever(st, content) == st

\* if not content_started and content: yield content_block_start
AssistantOpen(st, content) ==
    IF ~st.content_started /\ content # <<>>
    THEN [Emit(st, ContentBlockStartFrames(content_index, DefaultContentBlock))
             EXCEPT !.content_started = TRUE]
    ELSE st

\* the legacy assistant record
OnAssistant(st, chunk) ==
    LET message == Get(chunk, "message", EmptyDict)
        content == Get(message, "content", <<>>)
        sent == EmitBlocks(AssistantOpen(st, content), content)
    IN  IF "usage" \in DOMAIN message
        THEN ApplyUsage(sent, message["usage"])
        ELSE sent

\* the final result record
OnResult(st, chunk) ==
    IF "usage" \in DOMAIN chunk THEN ApplyUsage(st, chunk["usage"]) ELSE st

\* the body of "async for chunk in cli_response" for one chunk
ProcessRecord(st, chunk) ==
    IF ~IsDict(chunk)
    THEN st
    ELSE LET chunk_type == Get(chunk, "type", "")
         IN  CASE chunk_type = "stream_event" -> OnStreamEvent(st, chunk)
               [] chunk_type = "assistant" -> OnAssistant(st, chunk)
               [] chunk_type = "result" -> OnResult(st, chunk)
               [] OTHER -> st

\* closing events with message_delta ahead of content_block_stop
ClosingFramesDeltaFirst(started, tokens) ==
    MessageDeltaFrames(tokens)
    \o (IF started THEN ContentBlockStopFrames ELSE <<>>)
    \o MessageStopFrames

\* closing events that always hold a content_block_stop
ClosingFramesAlwaysStop(started, tokens) ==
    ContentBlockStopFrames \o MessageDeltaFrames(tokens) \o MessageStopFrames

\* after the loop: content_block_stop if a block was started, message_delta
\* with the output count, message_stop
ClosingFrames(started, tokens) ==
    (IF started THEN ContentBlockStopFrames ELSE <<>>)
    \o MessageDeltaFrames(tokens)
    \o MessageStopFrames

\* the requests that are served together
Requests == {1, 2}

\* a request that has not come in
NoRequest ==
    [pc |-> "none", message_id |-> 0, pid |-> 0, consumed |-> <<>>,
     out |-> <<>>, content_started |-> FALSE, input_tokens |-> 0,
     output_tokens |-> 0]

NoRequests == [r \in Requests |-> NoRequest]

\* message_start as the request with that message id sends it
MessageStartOf(message_id) ==
    << EventLine("message_start"),
       [line |-> "data", type |-> "message_start", id |-> message_id,
        usage |-> [input_tokens |-> 0, output_tokens |-> 0]] >>

\* a translator whose content_started, input_tokens and output_tokens are
\* module globals: every request works on those of the first
SessionOfShared(reqs, r) ==
    Session(reqs[1].content_started, reqs[1].input_tokens,
            reqs[1].output_tokens, <<>>)

\* content_started, input_tokens and output_tokens are locals of the
\* generator: a request works on its own
SessionOf(reqs, r) ==
    Session(reqs[r].content_started, reqs[r].input_tokens,
            reqs[r].output_tokens, <<>>)

\* temp_file.unlink(missing_ok=True) inside try/except Exception: a present
\* file is deleted, a missing one is tolerated, a file that cannot be deleted
\* ("locked") raises, which is logged
Unlink(status) == IF status = "present" THEN "deleted" ELSE status

\* a finally block whose try/except wraps the whole loop: the first failure
\* ends the deletions
RECURSIVE CleanupUntilFailure(_, _)
CleanupUntilFailure(files, fsys) ==
    IF files = <<>> \/ fsys[Head(files)] = "locked"
    THEN fsys
    ELSE CleanupUntilFailure(Tail(files),
                             [fsys EXCEPT ![Head(files)] = Unlink(@)])

\* the finally block: every temp file is unlinked, a failure on one is logged
\* and the loop goes on
Cleanup(files, fsys) ==
    [f \in DOMAIN fsys |->
        IF \E i \in 1..Len(files) : files[i] = f
        THEN Unlink(fsys[f])
        ELSE fsys[f]]

-----------------------------------------------------------------------------
(* ClaudeCLIWrapper.query: texts the subprocess writes.  A text is a        *)
(* sequence of characters; the members of a JSON object and a JSON scalar   *)
(* are written as one unit each.                                            *)

MemberIsErrorTrue == "\"is_error\":true"
MemberIsErrorFalse == "\"is_error\":false"
MemberResult == "\"result\":\"Model not found\""
MemberResultEmpty == "\"result\":\"\""
ScalarNumber == "7"

\* what each JSON member unit decodes to
MemberKey(unit) ==
    IF unit \in {MemberIsErrorTrue, MemberIsErrorFalse} THEN "is_error" ELSE "result"

MemberValue(unit) ==
    CASE unit = MemberIsErrorTrue -> TRUE
      [] unit = MemberIsErrorFalse -> FALSE
      [] unit = MemberResult -> <<"Model not found">>
      [] unit = MemberResultEmpty -> <<>>

MemberUnits ==
    {MemberIsErrorTrue, MemberIsErrorFalse, MemberResult, MemberResultEmpty}

\* whole stream-json documents, each written as one unit, and what they
\* decode to
DocumentDelta ==
    "{\"type\":\"stream_event\",\"event\":{\"type\":\"content_block_delta\",\"delta\":{\"type\":\"text_delta\",\"text\":\"a b\"}}}"

DocumentResult ==
    "{\"type\":\"result\",\"usage\":{\"input_tokens\":8,\"output_tokens\":20}}"

\* an assistant record whose text is 70000 characters long
DocumentLong == "{\"type\":\"assistant\",\"message\":{\"content\":[{\"type\":\"text\",\"text\":\"<x 70000 times>\"}]}}"

LongText == <<"<x 70000 times>">>

DocumentUnits == {DocumentDelta, DocumentResult, DocumentLong}

DocumentValue(unit) ==
    CASE unit = DocumentDelta -> DeltaRecord(<<"a", " ", "b">>)
      [] unit = DocumentResult ->
            ResultRecord([input_tokens |-> 8, output_tokens |-> 20])
      [] unit = DocumentLong -> AssistantRecord(<<TextBlock(LongText)>>)

\* a byte that is not UTF-8
InvalidByte == "<0xFF>"

\* bytes.decode(): fails on a byte that is not UTF-8
Decodable(text) == \A i \in 1..Len(text) : text[i] # InvalidByte

\* len() of a line in bytes; every unit but the long document is short
LongDocumentBytes == 70066

BytesOf(text) ==
    IF \E i \in 1..Len(text) : text[i] = DocumentLong
    THEN LongDocumentBytes + Len(text) - 1
    ELSE Len(text)

\* the buffer limit of the StreamReader that create_subprocess_exec makes
\* when it is given no limit: readline() raises ValueError on a longer line
StreamReaderLimit == 65536

\* str.strip(): leading and trailing whitespace removed
Strip(text) ==
    LET solid == {i \in 1..Len(text) : ~IsSpace(text[i])}
    IN  IF solid = {}
        THEN <<>>
        ELSE SubSeq(text,
                    CHOOSE i \in solid : \A j \in solid : i <= j,
                    CHOOSE i \in solid : \A j \in solid : j <= i)

\* json.loads: [ok |-> FALSE] is JSONDecodeError.  A document is a scalar, a
\* stream-json document unit or an object "{" member "," member ... "}", with
\* whitespace allowed around every unit; a repeated key keeps its last value.
JsonLoads(text) ==
    LET units == SelectSeq(text, LAMBDA c : ~IsSpace(c))
        n == Len(units)
        inner == SubSeq(units, 2, n - 1)
        isObject ==
            /\ n >= 2
            /\ units[1] = "{"
            /\ units[n] = "}"
            /\ \/ inner = <<>>
               \/ /\ Len(inner) % 2 = 1
                  /\ \A i \in 1..Len(inner) :
                        IF i % 2 = 1 THEN inner[i] \in MemberUnits
                                     ELSE inner[i] = ","
        members == SelectSeq(inner, LAMBDA c : c \in MemberUnits)
        keys == {MemberKey(members[i]) : i \in 1..Len(members)}
        last(k) == CHOOSE i \in 1..Len(members) :
                      /\ MemberKey(members[i]) = k
                      /\ \A j \in 1..Len(members) :
                            MemberKey(members[j]) = k => j <= i
    IN  IF units = <<ScalarNumber>>
        THEN [ok |-> TRUE, value |-> [nondict |-> TRUE]]
        ELSE IF n = 1 /\ units[1] \in DocumentUnits
        THEN [ok |-> TRUE, value |-> DocumentValue(units[1])]
        ELSE IF isObject
        THEN [ok |-> TRUE,
              value |-> [k \in keys |-> MemberValue(members[last(k)])]]
        ELSE [ok |-> FALSE]

PreviewLen == 500

\* a slice that keeps the whole text
PrefixWhole(text, n) == text

\* text[:n]
Prefix(text, n) == SubSeq(text, 1, IF Len(text) < n THEN Len(text) ELSE n)

Object(members) == <<"{">> \o members \o <<"}">>

StdoutSamples ==
    { <<>>,
      <<" ">>,
      <<" ", "o", "o", "p", "s", " ">>,
      Object(<<MemberIsErrorTrue, ",", MemberResult>>),
      Object(<<MemberIsErrorTrue>>),
      Object(<<MemberIsErrorTrue, ",", MemberResultEmpty>>),
      Object(<<MemberIsErrorFalse, ",", " ", MemberResult>>),
      Object(<<MemberResult>>) \o <<" ">>,
      <<"{", MemberIsErrorTrue>>,
      <<ScalarNumber>>,
      [i \in 1..(PreviewLen + 1) |-> "x"] }

StderrSamples == { <<>>, <<" ">>, <<"E", "r", "r", " ">> }

ReturnCodes == {0, 1, 2}

SettingSamples == { <<>>, <<" ">>, <<"R", ",", " ">> }

PromptSamples == { <<>>, <<"H", "i">> }

-----------------------------------------------------------------------------
(* ClaudeCLIWrapper.query: failures *)

NoFailure == [type |-> "none"]

Raise(type, message) == [type |-> type, message |-> message]

ToolsNotConfigured ==
    Raise("ValueError",
          <<"File upload attempted but CLAUDE_ALLOWED_TOOLS_STR not configured">>)

DirectoriesNotConfigured ==
    Raise("ValueError",
          <<"File upload attempted but CLAUDE_ALLOWED_DIRECTORIES_STR not configured">>)

\* a check of the tool allow-list alone
ValidateToolsOnly(files, tools, dirs) ==
    IF files # <<>> /\ Strip(tools) = <<>> THEN ToolsNotConfigured ELSE NoFailure

\* "if file_paths:" block: the two configuration checks, in order
ValidateAttachments(files, tools, dirs) ==
    IF files = <<>> THEN NoFailure
    ELSE IF Strip(tools) = <<>> THEN ToolsNotConfigured
    ELSE IF Strip(dirs) = <<>> THEN DirectoriesNotConfigured
    ELSE NoFailure

\* a non-zero exit whose message takes stdout as it is before looking for JSON
ErrorMessageStdoutFirst(stdout, stderr, returncode) ==
    IF Strip(stdout) # <<>> THEN Strip(stdout)
    ELSE IF Strip(stderr) # <<>> THEN Strip(stderr)
    ELSE <<"Command failed with exit code ", ToString(returncode)>>

\* non-zero exit: error_msg from stdout (JSON with is_error, else the text
\* when it is not JSON), else from stderr, else the generic text.  The result
\* is [raises |-> type, message |-> text]; a JSON value that is no object has
\* no .get and raises AttributeError.
ErrorMessage(stdout, stderr, returncode) ==
    LET parsed == JsonLoads(stdout)
        fromStdout ==
            IF stdout = <<>> THEN <<>>
            ELSE IF ~parsed.ok THEN Strip(stdout)
            ELSE IF Get(parsed.value, "is_error", FALSE)
                 THEN Get(parsed.value, "result", <<"Unknown CLI error">>)
                 ELSE <<>>
        fromStderr ==
            IF fromStdout = <<>> /\ stderr # <<>> THEN Strip(stderr) ELSE fromStdout
    IN  IF fromStderr = <<>>
        THEN <<"Command failed with exit code ", ToString(returncode)>>
        ELSE fromStderr

\* the non-zero exit branch
NonZeroExit(stdout, stderr, returncode) ==
    IF stdout # <<>> /\ JsonLoads(stdout).ok /\ ~IsDict(JsonLoads(stdout).value)
    THEN [records |-> <<>>,
          failure |-> Raise("AttributeError", <<"object has no attribute 'get'">>)]
    ELSE [records |-> <<>>,
          failure |-> Raise("RuntimeError",
                            <<"Claude CLI failed (exit ", ToString(returncode), "): ">>
                            \o ErrorMessage(stdout, stderr, returncode))]

\* a zero exit that does not look at is_error
ZeroExitIgnoringFlag(stdout) ==
    IF stdout # <<>> /\ JsonLoads(stdout).ok
    THEN [records |-> <<JsonLoads(stdout).value>>, failure |-> NoFailure]
    ELSE [records |-> <<>>, failure |-> NoFailure]

\* a zero exit that takes empty stdout for unparseable output
ZeroExitParsingEmpty(stdout) ==
    IF JsonLoads(stdout).ok
    THEN [records |-> <<JsonLoads(stdout).value>>, failure |-> NoFailure]
    ELSE [records |-> <<>>,
          failure |-> Raise("RuntimeError", <<"Failed to parse CLI output: ">>)]

\* the zero exit branch: "if stdout:" parse it; is_error raises, a parse
\* failure raises with the first PreviewLen characters, else the object is
\* yielded
ZeroExit(stdout) ==
    LET parsed == JsonLoads(stdout)
    IN  IF stdout = <<>>
        THEN [records |-> <<>>, failure |-> NoFailure]
        ELSE IF ~parsed.ok
        THEN [records |-> <<>>,
              failure |-> Raise("RuntimeError",
                                <<"Failed to parse CLI output: ", "JSONDecodeError",
                                  ". Output preview: ">>
                                \o Prefix(stdout, PreviewLen))]
        ELSE IF ~IsDict(parsed.value)
        THEN [records |-> <<>>,
              failure |-> Raise("AttributeError", <<"object has no attribute 'get'">>)]
        ELSE IF Get(parsed.value, "is_error", FALSE)
        THEN [records |-> <<>>,
              failure |-> Raise("RuntimeError",
                                <<"Claude CLI error: ">>
                                \o Get(parsed.value, "result", <<"Unknown CLI error">>))]
        ELSE [records |-> <<parsed.value>>, failure |-> NoFailure]

\* what the non-streaming path does with a completed process
Classify(returncode, stdout, stderr) ==
    IF returncode # 0
    THEN NonZeroExit(stdout, stderr, returncode)
    ELSE ZeroExit(stdout)

-----------------------------------------------------------------------------
(* ClaudeCLIWrapper.query: the argument vector and the stdin payload.  Every *)
(* argument is a text; a flag is a text of one unit.  None is the empty     *)
(* text or list: query only tests these arguments for truthiness.           *)

None == <<>>

Flag(name) == <<name>>

\* text.split(sep) for a separator of one character
RECURSIVE Split(_, _)
Split(text, sep) ==
    IF \A i \in 1..Len(text) : text[i] # sep
    THEN <<text>>
    ELSE LET at == CHOOSE i \in 1..Len(text) :
                      /\ text[i] = sep
                      /\ \A j \in 1..(i - 1) : text[j] # sep
         IN  <<SubSeq(text, 1, at - 1)>>
             \o Split(SubSeq(text, at + 1, Len(text)), sep)

\* sep.join(parts)
RECURSIVE Join(_, _)
Join(parts, sep) ==
    IF parts = <<>> THEN <<>>
    ELSE IF Len(parts) = 1 THEN parts[1]
    ELSE parts[1] \o sep \o Join(Tail(parts), sep)

\* [t.strip() for t in text.split(",") if t.strip()]
CommaList(text) ==
    LET parts == Split(text, ",")
        stripped == [i \in DOMAIN parts |-> Strip(parts[i])]
    IN  SelectSeq(stripped, LAMBDA t : t # <<>>)

\* for dir_path in allowed_dirs: cmd.extend(["--add-dir", dir_path])
RECURSIVE AddDirs(_)
AddDirs(dirs) ==
    IF dirs = <<>> THEN <<>>
    ELSE <<Flag("--add-dir"), Head(dirs)>> \o AddDirs(Tail(dirs))

\* the keyword arguments of query left at their defaults
DefaultOptions ==
    [model |-> None, system_prompt |-> None,
     allowed_tools |-> None, disallowed_tools |-> None]

\* "--output-format" and its companions
OutputFormat(s) ==
    IF s
    THEN <<Flag("--verbose"), Flag("--output-format"), Flag("stream-json"),
           Flag("--include-partial-messages")>>
    ELSE <<Flag("--output-format"), Flag("json")>>

\* tool permissions that prefer the allowed_tools parameter
ToolPermissionsCallerFirst(files, allowed_tools, tools_str, dirs_str) ==
    IF allowed_tools # <<>>
    THEN <<Flag("--allowed-tools"), Join(allowed_tools, <<" ">>)>>
    ELSE IF files # <<>>
    THEN <<Flag("--allowed-tools"), Join(CommaList(tools_str), <<" ">>)>>
         \o AddDirs(CommaList(dirs_str))
    ELSE <<>>

\* the tool permissions: with attachments the configured allow-lists, else
\* the allowed_tools parameter
ToolPermissions(files, allowed_tools, tools_str, dirs_str) ==
    IF files # <<>>
    THEN <<Flag("--allowed-tools"), Join(CommaList(tools_str), <<" ">>)>>
         \o AddDirs(CommaList(dirs_str))
    ELSE IF allowed_tools # <<>>
    THEN <<Flag("--allowed-tools"), Join(allowed_tools, <<" ">>)>>
    ELSE <<>>

\* the disallowed tools of the configuration, then those of the parameter
DisallowedTools(disallowed_tools, disallowed_str) ==
    LET disallowed_list ==
            (IF Strip(disallowed_str) # <<>> THEN CommaList(disallowed_str)
                                            ELSE <<>>)
            \o disallowed_tools
    IN  IF disallowed_list # <<>>
        THEN <<Flag("--disallowed-tools"), Join(disallowed_list, <<" ">>)>>
        ELSE <<>>

\* cmd as handed to asyncio.create_subprocess_exec
BuildCommand(cli_path, s, opts, files, tools_str, dirs_str, disallowed_str) ==
    <<cli_path, Flag("--print"), Flag("--permission-mode"),
      Flag("bypassPermissions")>>
    \o OutputFormat(s)
    \o (IF opts.model # <<>> THEN <<Flag("--model"), opts.model>> ELSE <<>>)
    \o (IF opts.system_prompt # <<>>
        THEN <<Flag("--append-system-prompt"), opts.system_prompt>>
        ELSE <<>>)
    \o ToolPermissions(files, opts.allowed_tools, tools_str, dirs_str)
    \o DisallowedTools(opts.disallowed_tools, disallowed_str)

\* file_path.absolute() of the attachment f, as a text
Absolute(f) == <<"/cwd/", ToString(f)>>

\* one read instruction per attachment
FileInstructions(files) ==
    [i \in DOMAIN files |->
        <<"Please use your Read tool to analyze this file: ">>
        \o Absolute(files[i])]

\* enhanced_prompt: the read instructions, a blank line, the prompt
EnhancedPrompt(p, files) ==
    IF files = <<>>
    THEN p
    ELSE Join(FileInstructions(files), <<"\n", "\n">>) \o <<"\n", "\n">> \o p

-----------------------------------------------------------------------------
(* AnthropicMessageAdapter.cli_response_to_anthropic: the non-streaming *)
(* aggregator *)

CliErrorPrefix == <<"Claude CLI error: ">>

UnknownCliError == <<"Unknown CLI error">>

\* the aggregator before it is called
AggregatorIdle ==
    [pc |-> "idle", seen |-> <<>>, content_text |-> <<>>, input_tokens |-> 0,
     output_tokens |-> 0, model |-> <<>>, returned |-> None,
     failure |-> NoFailure]

\* content_text = "", input_tokens = 0, output_tokens = 0
AggregatorStart(model) ==
    [AggregatorIdle EXCEPT !.pc = "consuming", !.model = model]

MessagesResponse(content_text, model, in_tokens, out_tokens) ==
    [type |-> "message", role |-> "assistant",
     content |-> <<TextBlock(content_text)>>, model |-> model,
     stop_reason |-> "end_turn",
     usage |-> [input_tokens |-> in_tokens, output_tokens |-> out_tokens]]

\* an aggregator that lets a record flagged is_error pass
AggregateErrorIgnored(st, response) == st

\* raise RuntimeError(f"Claude CLI error: {error_msg}")
AggregateError(st, response) ==
    [st EXCEPT !.pc = "raised",
               !.failure = Raise("RuntimeError",
                   CliErrorPrefix \o Get(response, "result", UnknownCliError))]

\* an aggregator that adds the counts up
AggregateUsageSummed(st, usage) ==
    [st EXCEPT !.input_tokens = @ + Get(usage, "input_tokens", 0),
               !.output_tokens = @ + Get(usage, "output_tokens", 0)]

\* input_tokens = usage.get("input_tokens", 0), and the same for output
AggregateUsage(st, usage) ==
    [st EXCEPT !.input_tokens = Get(usage, "input_tokens", 0),
               !.output_tokens = Get(usage, "output_tokens", 0)]

\* the body of "async for response in cli_response"
AggregateRecord(st, response) ==
    IF ~IsDict(response) THEN st
    ELSE IF Get(response, "is_error", FALSE) THEN AggregateError(st, response)
    ELSE LET texted == IF "result" \in DOMAIN response
                       THEN [st EXCEPT !.content_text = response.result]
                       ELSE st
         IN  IF "usage" \in DOMAIN response
             THEN AggregateUsage(texted, response.usage)
             ELSE texted

\* an aggregator that takes an empty sequence of records for a failure
AggregateEndNonEmpty(st) ==
    IF st.seen = <<>>
    THEN [st EXCEPT !.pc = "raised",
                    !.failure = Raise("RuntimeError", UnknownCliError)]
    ELSE [st EXCEPT !.pc = "returned",
                    !.returned = MessagesResponse(st.content_text, st.model,
                                     st.input_tokens, st.output_tokens)]

\* after the loop: return MessagesResponse(...)
AggregateEnd(st) ==
    [st EXCEPT !.pc = "returned",
               !.returned = MessagesResponse(st.content_text, st.model,
                                st.input_tokens, st.output_tokens)]

-----------------------------------------------------------------------------
(* The messages endpoint: AnthropicMessageAdapter.messages_to_prompt and the *)
(* checks of create_message.  A message is a role with a content, which is a *)
(* string or a list of blocks; a block is a text or an image that decodes.   *)

StrContent(text) == [kind |-> "str", text |-> text]

BlockContent(blocks) == [kind |-> "list", blocks |-> blocks]

ImageBlock == [type |-> "image"]

Message(role, content) == [role |-> role, content |-> content]

\* str(temp_file) of the temp file f
TempPath(f) == <<"/tmp/bridge_", ToString(f)>>

\* ContentProcessor.process_content_blocks: the text parts joined by "\n" and
\* the temp files written, numbered in block order after the made ones
RECURSIVE ProcessBlocks(_, _)
ProcessBlocks(blocks, made) ==
    IF blocks = <<>> THEN [parts |-> <<>>, temp_files |-> <<>>]
    ELSE LET block == Head(blocks)
             rest == ProcessBlocks(Tail(blocks),
                        IF block.type = "image" THEN made + 1 ELSE made)
         IN  IF block.type = "text"
             THEN [rest EXCEPT !.parts = <<block.text>> \o @]
             ELSE [parts |-> << <<"[Image: ">> \o TempPath(made + 1) \o <<"]">> >>
                             \o rest.parts,
                   temp_files |-> <<made + 1>> \o rest.temp_files]

ProcessContentBlocks(content) ==
    IF content.kind = "str"
    THEN [prompt |-> content.text, temp_files |-> <<>>]
    ELSE LET done == ProcessBlocks(content.blocks, 0)
         IN  [prompt |-> Join(done.parts, <<"\n">>),
              temp_files |-> done.temp_files]

\* _extract_text_content: the text blocks only, joined by "\n"
ExtractTextContent(content) ==
    IF content.kind = "str" THEN content.text
    ELSE LET texts == SelectSeq(content.blocks, LAMBDA b : b.type = "text")
         IN  Join([i \in DOMAIN texts |-> texts[i].text], <<"\n">>)

\* the index of the last user message, 0 for None
LastUserIndex(messages) ==
    LET users == {i \in DOMAIN messages : messages[i].role = "user"}
    IN  IF users = {} THEN 0
        ELSE CHOOSE i \in users : \A j \in users : j <= i

Turn(message) ==
    <<"<turn role=\"", message.role, "\">">>
    \o ExtractTextContent(message.content) \o <<"</turn>">>

\* a conversion that takes every message but the last one for the history
HistoryEndAllButLast(messages, last_user_index) == Len(messages) - 1

\* range(last_user_index): the messages before the last user message
HistoryEnd(messages, last_user_index) == last_user_index - 1

\* messages_to_prompt: (prompt, system_prompt, temp_files)
MessagesToPrompt(messages, system) ==
    LET last_user_index == LastUserIndex(messages)
    IN  IF messages = <<>> \/ last_user_index = 0
        THEN [prompt |-> <<>>, system_prompt |-> system, temp_files |-> <<>>]
        ELSE LET final == ProcessContentBlocks(messages[last_user_index].content)
                 history == [i \in 1..HistoryEnd(messages, last_user_index) |->
                                Turn(messages[i])]
             IN  IF Len(messages) = 1
                 THEN [prompt |-> final.prompt, system_prompt |-> system,
                       temp_files |-> final.temp_files]
                 ELSE [prompt |-> <<"<conversation>", "\n">>
                                  \o Join(history, <<"\n">>)
                                  \o <<"\n", "</conversation>", "\n", "\n">>
                                  \o final.prompt,
                       system_prompt |-> system,
                       temp_files |-> final.temp_files]

\* request.model: a full name and an alias
ModelSamples == { <<"claude-3-opus">>, <<"sonnet">> }

\* ModelMapper.map_model on the model names in use
MapModel(model) ==
    IF model = <<"claude-3-opus">> THEN <<"opus">> ELSE model

NoUserMessage == <<"No user message found in request">>

ToolsNotSupported ==
    <<"Tools/function calling is not supported. Claude CLI does not support custom tools.">>

\* the handler before a request arrives
HandlerIdle ==
    [pc |-> "idle", request |-> None, prompt |-> <<>>, system_prompt |-> None,
     temp_files |-> <<>>, status_code |-> 0, detail |-> <<>>]

\* a handler that lets a request with tools through
CheckRequestAnyTools(prompt_text, tools) ==
    IF prompt_text = <<>> THEN NoUserMessage ELSE <<>>

\* "if not prompt" and "if request.tools": the detail of the HTTPException
\* raised with status 400, or the empty text
CheckRequest(prompt_text, tools) ==
    IF prompt_text = <<>> THEN NoUserMessage
    ELSE IF tools # <<>> THEN ToolsNotSupported
    ELSE <<>>

-----------------------------------------------------------------------------
(* ClaudeCLIWrapper.query as a state machine *)

cli_path == <<"claude">>

NoProcess ==
    [state |-> "none", args |-> <<>>, stdin |-> "none", input |-> <<>>,
     returncode |-> 0, stdout |-> <<>>, stderr |-> <<>>,
     lines |-> <<>>, wrote_at |-> 0, signals |-> <<>>, stdout_eof |-> FALSE,
     exited_at |-> 0, max_gap |-> 0]

\* no ensure_timeout task
NoTask == [pc |-> "none", since |-> 0]

\* the subprocess's stdin once the prompt is delivered.  A prompt that is not
\* empty is written and stdin closed, by the streaming branch itself or by
\* communicate(input).  An empty prompt is not written: the streaming branch
\* leaves stdin open; communicate(None) closes it or leaves it open,
\* depending on the version of asyncio.
StdinAfterDelivery(s, enhanced_prompt) ==
    IF enhanced_prompt # <<>> THEN {"closed"}
    ELSE IF s THEN {"open"}
    ELSE {"open", "closed"}

\* the invocation before query is iterated; the settings stay as they are
QueryIdle ==
    /\ qpc = "idle"
    /\ stream = FALSE
    /\ prompt = <<>>
    /\ file_paths = <<>>
    /\ spawn_calls = 0
    /\ process = NoProcess
    /\ yielded = <<>>
    /\ failure = NoFailure
    /\ last_line_time = 0
    /\ lines_read = 0
    /\ wait_started = 0
    /\ ensure_timeout = NoTask
    /\ timeout_log = {}

\* what process.terminate() and process.kill() raise: ProcessLookupError
\* for a process that has exited
SignalError(proc) ==
    IF proc.state = "exited" THEN Raise("ProcessLookupError", <<>>)
                             ELSE NoFailure

\* a signal call that is not wrapped: the error gets out
SuppressNothing(error) == error

\* with contextlib.suppress(ProcessLookupError): what gets out of the block
Suppress(error) ==
    IF error.type = "ProcessLookupError" THEN NoFailure ELSE error

\* the process has exited within this tick of the clock: a timer that expires
\* now may run ahead of the callbacks of the exit
ExitUnseen == process.state = "exited" /\ process.exited_at = now

\* the signals that reach the process: one that has exited gets none
Terminate(proc) ==
    IF proc.state = "running"
    THEN [proc EXCEPT !.signals = Append(@, "SIGTERM")]
    ELSE proc

Kill(proc) ==
    IF proc.state = "running"
    THEN [proc EXCEPT !.signals = Append(@, "SIGKILL")]
    ELSE proc

\* first __anext__ of query: the attachment checks, then the spawn and the
\* delivery of the prompt.  Streaming writes and closes stdin only for a
\* non-empty prompt; communicate() gets the prompt, or None for an empty
\* one.  Non-streaming also starts the ensure_timeout task.
QueryStartWith(s, p, files, opts) ==
    /\ qpc = "idle"
    /\ stream' = s
    /\ prompt' = p
    /\ file_paths' = files
    /\ LET invalid == ValidateAttachments(files, claude_allowed_tools_str,
                                          claude_allowed_directories_str)
           enhanced_prompt == EnhancedPrompt(p, files)
       IN  IF invalid # NoFailure
           THEN /\ failure' = invalid
                /\ qpc' = "done"
                /\ UNCHANGED <<spawn_calls, process, last_line_time,
                               wait_started, ensure_timeout>>
           ELSE /\ spawn_calls' = spawn_calls + 1
                /\ \E stdin \in StdinAfterDelivery(s, enhanced_prompt) :
                   process' = [NoProcess EXCEPT
                                 !.state = "running",
                                 !.args = BuildCommand(
                                              cli_path, s, opts, files,
                                              claude_allowed_tools_str,
                                              claude_allowed_directories_str,
                                              claude_disallowed_tools_str),
                                 !.stdin = stdin,
                                 !.input = enhanced_prompt,
                                 !.wrote_at = now]
                /\ qpc' = IF s THEN "reading" ELSE "communicating"
                /\ last_line_time' = now
                /\ wait_started' = now
                /\ ensure_timeout' = IF s THEN NoTask
                                     ELSE [pc |-> "waiting", since |-> now]
                /\ UNCHANGED failure
    /\ UNCHANGED <<settings, now, yielded, lines_read>>
    /\ UNCHANGED timeout_log
    /\ UNCHANGED <<tvars, hvars>>

\* query called with the prompt, the stream flag and the attachments only
QueryStart(s, p, files) == QueryStartWith(s, p, files, DefaultOptions)

\* a timeout of asyncio.wait_for that has yet to expire
TimerPending ==
    \/ /\ qpc = "communicating"
       /\ now - wait_started < claude_process_timeout_seconds
    \/ /\ qpc = "waiting"
       /\ now - wait_started < claude_process_kill_grace_seconds
    \/ /\ ensure_timeout.pc = "waiting"
       /\ now - ensure_timeout.since < claude_process_timeout_seconds
    \/ /\ ensure_timeout.pc = "grace"
       /\ now - ensure_timeout.since < claude_process_kill_grace_seconds

\* the clock advances; it is followed up to MaxClock, and beyond for as long
\* as a timeout is running
Tick ==
    /\ now < MaxClock \/ TimerPending
    /\ now' = now + 1
    /\ UNCHANGED <<settings, qpc, stream, prompt, file_paths, spawn_calls,
                   process, yielded, failure, last_line_time, lines_read,
                   wait_started, ensure_timeout>>
    /\ UNCHANGED timeout_log
    /\ UNCHANGED <<tvars, hvars>>

\* the subprocess of a non-streaming invocation ends by itself
ProcessExits(returncode, stdout, stderr) ==
    /\ qpc = "communicating"
    /\ process.state = "running"
    /\ process' = [process EXCEPT !.state = "exited", !.returncode = returncode,
                                  !.stdout = stdout, !.stderr = stderr,
                                  !.exited_at = now]
    /\ UNCHANGED <<settings, now, qpc,
                   stream, prompt, file_paths, spawn_calls, yielded, failure>>
    /\ UNCHANGED <<last_line_time, lines_read, wait_started, ensure_timeout>>
    /\ UNCHANGED timeout_log
    /\ UNCHANGED <<tvars, hvars>>

\* communicate() returns: the exit code and the output decide between a
\* yielded record, a failure and an empty result
CommunicateReturns ==
    /\ qpc = "communicating"
    /\ process.state = "exited"
    /\ LET r == Classify(process.returncode, process.stdout, process.stderr)
       IN  /\ yielded' = yielded \o r.records
           /\ failure' = r.failure
           /\ qpc' = IF r.records # <<>> THEN "yielded" ELSE "done"
    /\ UNCHANGED <<settings, now,
                   stream, prompt, file_paths, spawn_calls, process>>
    /\ UNCHANGED <<last_line_time, lines_read, wait_started, ensure_timeout>>
    /\ UNCHANGED timeout_log
    /\ UNCHANGED <<tvars, hvars>>

\* the consumer asks for the next record after the result: query returns
QueryReturns ==
    /\ qpc = "yielded"
    /\ ~stream
    /\ qpc' = "done"
    /\ UNCHANGED <<settings, now,
                   stream, prompt, file_paths, spawn_calls, process, yielded, failure>>
    /\ UNCHANGED <<last_line_time, lines_read, wait_started, ensure_timeout>>
    /\ UNCHANGED timeout_log
    /\ UNCHANGED <<tvars, hvars>>

\* the failure of the non-streaming timeout
TimedOut(timeout_seconds) ==
    Raise("RuntimeError",
          <<"Claude CLI timed out after ", ToString(timeout_seconds),
            "s (terminated)">>)

\* asyncio.wait_for(process.communicate(), timeout) times out: terminate and
\* raise
CommunicateTimesOut ==
    /\ qpc = "communicating"
    /\ process.state = "running" \/ ExitUnseen
    /\ now - wait_started >= claude_process_timeout_seconds
    /\ process' = Terminate(process)
    /\ LET error == Suppress(SignalError(process))
       IN  failure' = IF error # NoFailure
                      THEN error
                      ELSE TimedOut(claude_process_timeout_seconds)
    /\ timeout_log' = timeout_log \cup {"Non-streaming CLI timeout exceeded"}
    /\ qpc' = "done"
    /\ UNCHANGED <<settings, now, stream, prompt, file_paths, spawn_calls,
                   yielded, last_line_time, lines_read, wait_started,
                   ensure_timeout>>
    /\ UNCHANGED <<tvars, hvars>>

\* ensure_timeout: wait_for(proc.wait(), timeout_seconds) times out, the
\* process is terminated and the grace period starts
EnsureTimeoutTerminates ==
    /\ ensure_timeout.pc = "waiting"
    /\ process.state = "running" \/ ExitUnseen
    /\ now - ensure_timeout.since >= claude_process_timeout_seconds
    /\ process' = Terminate(process)
    /\ ensure_timeout' =
          [pc |-> IF Suppress(SignalError(process)) # NoFailure
                  THEN "failed" ELSE "grace",
           since |-> now]
    /\ timeout_log' =
          timeout_log \cup {"CLI process timeout exceeded; terminating"}
    /\ UNCHANGED <<settings, now, qpc, stream, prompt, file_paths, spawn_calls,
                   yielded, failure, last_line_time, lines_read, wait_started>>
    /\ UNCHANGED <<tvars, hvars>>

\* ensure_timeout that leaves a process alone after the terminate signal
EnsureTimeoutGivesUp ==
    /\ ensure_timeout.pc = "grace"
    /\ process.state = "running"
    /\ now - ensure_timeout.since >= claude_process_kill_grace_seconds
    /\ ensure_timeout' = [ensure_timeout EXCEPT !.pc = "done"]
    /\ UNCHANGED <<settings, now, qpc, stream, prompt, file_paths, spawn_calls,
                   process, yielded, failure, last_line_time, lines_read,
                   wait_started>>
    /\ UNCHANGED timeout_log
    /\ UNCHANGED <<tvars, hvars>>

\* ensure_timeout: the process has not exited within the grace period and is
\* killed
EnsureTimeoutKills ==
    /\ ensure_timeout.pc = "grace"
    /\ process.state = "running" \/ ExitUnseen
    /\ now - ensure_timeout.since >= claude_process_kill_grace_seconds
    /\ process' = Kill(process)
    /\ ensure_timeout' =
          [ensure_timeout EXCEPT
              !.pc = IF Suppress(SignalError(process)) # NoFailure
                     THEN "failed" ELSE "done"]
    /\ UNCHANGED <<settings, now, qpc, stream, prompt, file_paths, spawn_calls,
                   yielded, failure, last_line_time, lines_read, wait_started>>
    /\ UNCHANGED timeout_log
    /\ UNCHANGED <<tvars, hvars>>

\* ensure_timeout: proc.wait() returns, the task ends
EnsureTimeoutReturns ==
    /\ ensure_timeout.pc \in {"waiting", "grace"}
    /\ process.state = "exited"
    /\ ensure_timeout' = [ensure_timeout EXCEPT !.pc = "done"]
    /\ UNCHANGED <<settings, now, qpc, stream, prompt, file_paths, spawn_calls,
                   process, yielded, failure, last_line_time, lines_read,
                   wait_started>>
    /\ UNCHANGED timeout_log
    /\ UNCHANGED <<tvars, hvars>>

\* the subprocess ends while nobody is in communicate(): a streaming process
\* closing its stdout, or a process dying after the invocation gave up on it
ProcessStops(returncode) ==
    /\ qpc # "communicating"
    /\ process.state = "running"
    /\ process' = [process EXCEPT !.state = "exited", !.returncode = returncode,
                                  !.exited_at = now]
    /\ UNCHANGED <<settings, now, qpc, stream, prompt, file_paths, spawn_calls,
                   yielded, failure, last_line_time, lines_read, wait_started,
                   ensure_timeout>>
    /\ UNCHANGED timeout_log
    /\ UNCHANGED <<tvars, hvars>>

\* the streaming subprocess writes one line to stdout
ProcessWrites(line) ==
    /\ stream
    /\ qpc # "done"
    /\ process.state = "running"
    /\ ~process.stdout_eof
    /\ Len(process.lines) < MaxLines
    /\ process' = [process EXCEPT
                      !.lines = Append(@, line),
                      !.wrote_at = now,
                      !.max_gap = IF now - process.wrote_at > @
                                  THEN now - process.wrote_at ELSE @]
    /\ UNCHANGED <<settings, now, qpc, stream, prompt, file_paths, spawn_calls,
                   yielded, failure, last_line_time, lines_read, wait_started,
                   ensure_timeout>>
    /\ UNCHANGED timeout_log
    /\ UNCHANGED <<tvars, hvars>>

\* the streaming subprocess closes its stdout and keeps running
ProcessClosesStdout ==
    /\ stream
    /\ qpc # "done"
    /\ process.state = "running"
    /\ ~process.stdout_eof
    /\ process' = [process EXCEPT !.stdout_eof = TRUE]
    /\ UNCHANGED <<settings, now, qpc, stream, prompt, file_paths, spawn_calls,
                   yielded, failure, last_line_time, lines_read, wait_started,
                   ensure_timeout>>
    /\ UNCHANGED timeout_log
    /\ UNCHANGED <<tvars, hvars>>

\* what the read loop does with a line: readline() raises on a line longer
\* than the reader's limit and line.decode() on bytes that are not UTF-8; a
\* blank line goes to the idle check, a line that parses is yielded, any
\* other is skipped by "continue"
LineOutcome(line) ==
    IF BytesOf(line) > StreamReaderLimit THEN "overrun"
    ELSE IF ~Decodable(line) THEN "undecodable"
    ELSE IF Strip(line) = <<>> THEN "blank"
    ELSE IF JsonLoads(line).ok THEN "record"
    ELSE "noise"

\* the exceptions that leave the read loop
LineFailure(outcome) ==
    IF outcome = "overrun"
    THEN Raise("ValueError",
               <<"Separator is found, but chunk is longer than limit">>)
    ELSE Raise("UnicodeDecodeError", <<"invalid start byte">>)

\* (time.monotonic() - last_line_time) > idle_timeout
IdleTimedOut(t, last, idle_timeout) == (t - last) > idle_timeout

IdleTimeoutLogged == "Streaming idle timeout exceeded; terminating process"

\* an idle check that raises out of query instead of leaving the loop
IdleCheckRaising(last) ==
    IF IdleTimedOut(now, last, claude_stream_idle_timeout_seconds)
    THEN /\ process' = Terminate(process)
         /\ qpc' = "done"
         /\ failure' = Raise("TimeoutError", <<IdleTimeoutLogged>>)
         /\ timeout_log' = timeout_log \cup {IdleTimeoutLogged}
         /\ UNCHANGED wait_started
    ELSE /\ qpc' = "reading"
         /\ UNCHANGED <<process, wait_started, timeout_log, failure>>

\* the idle timeout check at the end of the loop body: terminate and break
\* into the final wait, or read on
IdleCheck(last) ==
    IF IdleTimedOut(now, last, claude_stream_idle_timeout_seconds)
    THEN /\ process' = Terminate(process)
         /\ timeout_log' = timeout_log \cup {IdleTimeoutLogged}
         /\ LET error == Suppress(SignalError(process))
            IN  IF error # NoFailure
                THEN /\ failure' = error
                     /\ qpc' = "done"
                     /\ UNCHANGED wait_started
                ELSE /\ qpc' = "waiting"
                     /\ wait_started' = now
                     /\ UNCHANGED failure
    ELSE /\ qpc' = "reading"
         /\ UNCHANGED <<process, wait_started, timeout_log, failure>>

\* readline() returns a line
ReadLine ==
    /\ qpc = "reading"
    /\ lines_read < Len(process.lines)
    /\ LET line == process.lines[lines_read + 1]
           outcome == LineOutcome(line)
           seen == IF outcome \in {"record", "noise"} THEN now
                                                      ELSE last_line_time
       IN  /\ lines_read' = lines_read + 1
           /\ last_line_time' = seen
           /\ CASE outcome \in {"overrun", "undecodable"} ->
                     /\ failure' = LineFailure(outcome)
                     /\ qpc' = "done"
                     /\ UNCHANGED <<yielded, process, wait_started,
                                    timeout_log>>
                [] outcome = "record" ->
                     /\ yielded' = Append(yielded, JsonLoads(line).value)
                     /\ qpc' = "yielded"
                     /\ UNCHANGED <<process, wait_started, timeout_log,
                                    failure>>
                [] outcome = "noise" ->
                     /\ UNCHANGED <<yielded, qpc, process, wait_started,
                                    timeout_log, failure>>
                [] OTHER ->
                     /\ IdleCheck(seen)
                     /\ UNCHANGED yielded
    /\ UNCHANGED <<settings, now, stream, prompt, file_paths, spawn_calls,
                   ensure_timeout>>
    /\ UNCHANGED <<tvars, hvars>>

\* the consumer asks for the next record: the loop body goes on after its
\* yield, with the idle check
ResumeAfterYield ==
    /\ qpc = "yielded"
    /\ stream
    /\ IdleCheck(last_line_time)
    /\ UNCHANGED <<settings, now, stream, prompt, file_paths, spawn_calls,
                   yielded, last_line_time, lines_read, ensure_timeout>>
    /\ UNCHANGED <<tvars, hvars>>

\* readline() returns b"": stdout is at its end, because the process has
\* exited or has closed it, and every line is read.  The loop ends and the
\* final wait starts; it returns at once when the process has exited.
ReadEOF ==
    /\ qpc = "reading"
    /\ lines_read = Len(process.lines)
    /\ process.state = "exited" \/ process.stdout_eof
    /\ IF process.state = "exited"
       THEN /\ qpc' = "done"
            /\ UNCHANGED wait_started
       ELSE /\ qpc' = "waiting"
            /\ wait_started' = now
    /\ UNCHANGED <<settings, now, stream, prompt, file_paths, spawn_calls,
                   process, yielded, failure, last_line_time, lines_read,
                   ensure_timeout>>
    /\ UNCHANGED timeout_log
    /\ UNCHANGED <<tvars, hvars>>

\* the consumer closes the generator while it is parked at its yield:
\* GeneratorExit is raised there and leaves query, which has no handler and
\* no finally around the read loop
QueryClosed ==
    /\ qpc = "yielded"
    /\ stream
    /\ qpc' = "done"
    /\ UNCHANGED <<settings, now, stream, prompt, file_paths, spawn_calls,
                   process, yielded, failure, last_line_time, lines_read,
                   wait_started, ensure_timeout>>
    /\ UNCHANGED timeout_log
    /\ UNCHANGED <<tvars, hvars>>

\* after the break: wait_for(process.wait(), kill_grace) returns, or times
\* out, which is suppressed; query returns either way
FinalWaitEnds ==
    /\ qpc = "waiting"
    /\ \/ process.state = "exited"
       \/ now - wait_started >= claude_process_kill_grace_seconds
    /\ qpc' = "done"
    /\ UNCHANGED <<settings, now, stream, prompt, file_paths, spawn_calls,
                   process, yielded, failure, last_line_time, lines_read,
                   wait_started, ensure_timeout>>
    /\ UNCHANGED timeout_log
    /\ UNCHANGED <<tvars, hvars>>

-----------------------------------------------------------------------------
(* The generator as a state machine: one step per resumption point *)

Files == 1..MaxFiles

InitSession ==
    /\ pc = "created"
    /\ suspended = FALSE
    /\ consumed = <<>>
    /\ pending = <<>>
    /\ out = <<>>
    /\ content_started = FALSE
    /\ input_tokens = 0
    /\ output_tokens = 0
    /\ exit = "none"

\* the timeouts of class Settings as they are declared
DefaultTimeouts ==
    /\ claude_process_timeout_seconds = 300
    /\ claude_stream_idle_timeout_seconds = 180
    /\ claude_process_kill_grace_seconds = 5

\* settings of a deployment that has not enabled file upload
DefaultSettings ==
    /\ claude_allowed_tools_str = <<>>
    /\ claude_allowed_directories_str = <<>>
    /\ claude_disallowed_tools_str = <<>>
    /\ DefaultTimeouts

\* the request has no attachment
Init ==
    /\ InitSession
    /\ temp_files = <<>>
    /\ fs = [f \in Files |-> "missing"]
    /\ DefaultSettings
    /\ now = 0
    /\ QueryIdle
    /\ aggregator = AggregatorIdle
    /\ requests = NoRequests
    /\ handler = HandlerIdle

\* first __anext__: the generator body starts and reaches message_start
Start ==
    /\ pc = "created"
    /\ pc' = "streaming"
    /\ pending' = MessageStartFrames
    /\ UNCHANGED <<suspended, consumed, out, content_started, input_tokens,
                   output_tokens, exit, temp_files, fs>>
    /\ UNCHANGED <<qvars, hvars>>

\* a yield: the next frame goes to the consumer and the generator parks
Yield ==
    /\ pc \in {"streaming", "closing"}
    /\ pending # <<>>
    /\ out' = Append(out, Head(pending))
    /\ pending' = Tail(pending)
    /\ suspended' = TRUE
    /\ UNCHANGED <<pc, consumed, content_started, input_tokens, output_tokens,
                   exit, temp_files, fs>>
    /\ UNCHANGED <<qvars, hvars>>

\* cli_response hands over its next record and the loop body runs on it
Consume(chunk) ==
    /\ pc = "streaming"
    /\ pending = <<>>
    /\ out # <<>>
    /\ Len(consumed) < MaxRecords
    /\ LET st == ProcessRecord(Session(content_started, input_tokens,
                                       output_tokens, <<>>), chunk)
       IN  /\ content_started' = st.content_started
           /\ input_tokens' = st.input_tokens
           /\ output_tokens' = st.output_tokens
           /\ pending' = st.frames
    /\ consumed' = Append(consumed, chunk)
    /\ suspended' = FALSE
    /\ UNCHANGED <<pc, out, exit, temp_files, fs>>
    /\ UNCHANGED <<qvars, hvars>>

\* cli_response is exhausted (EOF, or the orchestrator ended it after an idle
\* timeout): the closing events are next
EndOfInput ==
    /\ pc = "streaming"
    /\ pending = <<>>
    /\ out # <<>>
    /\ pc' = "closing"
    /\ pending' = ClosingFrames(content_started, output_tokens)
    /\ suspended' = FALSE
    /\ UNCHANGED <<consumed, out, content_started, input_tokens,
                   output_tokens, exit, temp_files, fs>>
    /\ UNCHANGED <<qvars, hvars>>

\* the generator body runs off its end: finally, then StopAsyncIteration
Complete ==
    /\ pc = "closing"
    /\ pending = <<>>
    /\ pc' = "finished"
    /\ exit' = "normal"
    /\ fs' = Cleanup(temp_files, fs)
    /\ suspended' = FALSE
    /\ UNCHANGED <<consumed, pending, out, content_started, input_tokens,
                   output_tokens, temp_files>>
    /\ UNCHANGED <<qvars, hvars>>

\* a translator that catches the failure of cli_response and closes the
\* response as after a normal end
UpstreamFailsCaught ==
    /\ pc = "streaming"
    /\ pending = <<>>
    /\ out # <<>>
    /\ pc' = "closing"
    /\ pending' = ClosingFrames(content_started, output_tokens)
    /\ suspended' = FALSE
    /\ UNCHANGED <<consumed, out, content_started, input_tokens,
                   output_tokens, exit, temp_files, fs>>
    /\ UNCHANGED <<qvars, hvars>>

\* cli_response raises while the generator awaits it: nothing more is
\* yielded, finally runs, the exception goes to the consumer
UpstreamFails ==
    /\ pc = "streaming"
    /\ pending = <<>>
    /\ out # <<>>
    /\ pc' = "finished"
    /\ exit' = "error"
    /\ fs' = Cleanup(temp_files, fs)
    /\ suspended' = FALSE
    /\ UNCHANGED <<consumed, pending, out, content_started, input_tokens,
                   output_tokens, temp_files>>
    /\ UNCHANGED <<qvars, hvars>>

\* aclose() while parked at a yield: GeneratorExit is raised there, the
\* frames not yet yielded are dropped, finally runs
Close ==
    /\ pc \in {"streaming", "closing"}
    /\ suspended
    /\ pc' = "finished"
    /\ exit' = "closed"
    /\ pending' = <<>>
    /\ fs' = Cleanup(temp_files, fs)
    /\ suspended' = FALSE
    /\ UNCHANGED <<consumed, out, content_started, input_tokens,
                   output_tokens, temp_files>>
    /\ UNCHANGED <<qvars, hvars>>

Next ==
    \/ Start
    \/ Yield
    \/ \E chunk \in RecordSamples : Consume(chunk)
    \/ EndOfInput
    \/ Complete
    \/ UpstreamFails
    \/ Close

Spec == Init /\ [][Next]_vars

-----------------------------------------------------------------------------
(* Sessions of requests that carry attachments: the temp files and what the *)
(* file system holds for each when the stream ends.                         *)

FileStatus == {"present", "missing", "locked"}

CleanupRecords ==
    { DeltaRecord(<<"a", " ", "b">>),
      AssistantRecord(<<>>),
      ResultRecord([input_tokens |-> 8, output_tokens |-> 20]) }

InitCleanup ==
    /\ InitSession
    /\ \E n \in 1..MaxFiles :
          /\ temp_files = [i \in 1..n |-> i]
          /\ fs \in [Files -> FileStatus]
          /\ \A f \in Files : f > n => fs[f] = "missing"
    /\ DefaultSettings
    /\ now = 0
    /\ QueryIdle
    /\ aggregator = AggregatorIdle
    /\ requests = NoRequests
    /\ handler = HandlerIdle

NextCleanup ==
    \/ Start
    \/ Yield
    \/ \E chunk \in CleanupRecords : Consume(chunk)
    \/ EndOfInput
    \/ Complete
    \/ UpstreamFails
    \/ Close

SpecCleanup == InitCleanup /\ [][NextCleanup]_vars

-----------------------------------------------------------------------------
(* Invocations of ClaudeCLIWrapper.query under every setting *)

AttachmentLists == {[i \in 1..n |-> i] : n \in 0..MaxFiles}

InitQuery ==
    /\ InitSession
    /\ temp_files = <<>>
    /\ fs = [f \in Files |-> "missing"]
    /\ claude_allowed_tools_str \in SettingSamples
    /\ claude_allowed_directories_str \in SettingSamples
    /\ claude_disallowed_tools_str = <<>>
    /\ DefaultTimeouts
    /\ now = 0
    /\ QueryIdle
    /\ aggregator = AggregatorIdle
    /\ requests = NoRequests
    /\ handler = HandlerIdle

NextQuery ==
    \/ \E s \in BOOLEAN, p \in PromptSamples, files \in AttachmentLists :
          QueryStart(s, p, files)
    \/ \E returncode \in ReturnCodes, stdout \in StdoutSamples,
          stderr \in StderrSamples :
          ProcessExits(returncode, stdout, stderr)
    \/ CommunicateReturns
    \/ QueryReturns

SpecQuery == InitQuery /\ [][NextQuery]_vars

-----------------------------------------------------------------------------
(* Invocations of ClaudeCLIWrapper.query against the clock: the streaming    *)
(* read loop with its idle check, and the non-streaming timeout with the     *)
(* ensure_timeout task.  The event loop runs every callback that is ready,   *)
(* so each step of query and of ensure_timeout is weakly fair, as is the     *)
(* clock; the subprocess owes nothing.                                       *)

\* stdout lines of a streaming subprocess: a blank line, a line that is not
\* JSON, a stream-json record, a JSON scalar, a record longer than the
\* reader's limit, a line that is not UTF-8
LineSamples ==
    { <<"\n">>,
      <<"o", "o", "p", "s", "\n">>,
      <<DocumentDelta, "\n">>,
      <<ScalarNumber, "\n">>,
      <<DocumentLong, "\n">>,
      <<InvalidByte, "\n">> }

\* exit codes of a subprocess that ends outside communicate()
StopCodes == {0, 1}

\* what a timed-out or signalled subprocess may still report
TimedExits ==
    { [returncode |-> 0, stdout |-> Object(<<MemberResult>>), stderr |-> <<>>],
      [returncode |-> 1, stdout |-> <<>>, stderr |-> <<"E", "r", "r", " ">>] }

\* timeouts short enough for the clock to pass them
InitTimed ==
    /\ InitSession
    /\ temp_files = <<>>
    /\ fs = [f \in Files |-> "missing"]
    /\ claude_allowed_tools_str = <<>>
    /\ claude_allowed_directories_str = <<>>
    /\ claude_disallowed_tools_str = <<>>
    /\ claude_process_timeout_seconds = 2
    /\ claude_stream_idle_timeout_seconds = 1
    /\ claude_process_kill_grace_seconds = 1
    /\ now = 0
    /\ QueryIdle
    /\ aggregator = AggregatorIdle
    /\ requests = NoRequests
    /\ handler = HandlerIdle

\* non-streaming invocations against the absolute timeout
NextTimeout ==
    \/ \E p \in PromptSamples : QueryStart(FALSE, p, <<>>)
    \/ Tick
    \/ \E e \in TimedExits : ProcessExits(e.returncode, e.stdout, e.stderr)
    \/ CommunicateReturns
    \/ QueryReturns
    \/ CommunicateTimesOut
    \/ EnsureTimeoutTerminates
    \/ EnsureTimeoutKills
    \/ EnsureTimeoutReturns
    \/ \E returncode \in StopCodes : ProcessStops(returncode)

FairTimeout ==
    /\ WF_vars(Tick)
    /\ WF_vars(CommunicateReturns)
    /\ WF_vars(QueryReturns)
    /\ WF_vars(CommunicateTimesOut)
    /\ WF_vars(EnsureTimeoutTerminates)
    /\ WF_vars(EnsureTimeoutKills)
    /\ WF_vars(EnsureTimeoutReturns)

SpecTimeout == InitTimed /\ [][NextTimeout]_vars /\ FairTimeout

\* streaming invocations against the idle window, the consumer asking for
\* the next record sooner or later
NextStream ==
    \/ \E p \in PromptSamples : QueryStart(TRUE, p, <<>>)
    \/ Tick
    \/ \E returncode \in StopCodes : ProcessStops(returncode)
    \/ \E line \in LineSamples : ProcessWrites(line)
    \/ ProcessClosesStdout
    \/ ReadLine
    \/ ResumeAfterYield
    \/ QueryClosed
    \/ ReadEOF
    \/ FinalWaitEnds

FairStream ==
    /\ WF_vars(Tick)
    /\ WF_vars(ReadLine)
    /\ WF_vars(ResumeAfterYield)
    /\ WF_vars(ReadEOF)
    /\ WF_vars(FinalWaitEnds)

SpecStream == InitTimed /\ [][NextStream]_vars /\ FairStream

-----------------------------------------------------------------------------
(* The streaming response end to end: stream_anthropic_response iterates     *)
(* query (through ClaudeClient.query, which hands every record on), so query *)
(* runs only while the translator awaits its next record.                    *)

\* the translator is in "async for chunk in cli_response", waiting
Awaiting == pc = "streaming" /\ pending = <<>> /\ out # <<>>

\* the first record is asked for: query starts
PullFirst(p) == Awaiting /\ QueryStart(TRUE, p, <<>>)

\* the record query has yielded reaches the loop body of the translator
Deliver ==
    /\ qpc = "yielded"
    /\ Len(consumed) < Len(yielded)
    /\ Consume(yielded[Len(consumed) + 1])

\* the translator asks for the next record: query goes on after its yield
PullNext ==
    /\ Awaiting
    /\ Len(consumed) = Len(yielded)
    /\ ResumeAfterYield

\* query has returned: the translator's loop ends
Exhausted ==
    /\ qpc = "done"
    /\ failure = NoFailure
    /\ Len(consumed) = Len(yielded)
    /\ EndOfInput

\* stdout lines of the subprocess behind a response: a blank line and a
\* text delta
PipelineLines == { <<"\n">>, <<DocumentDelta, "\n">> }

NextPipeline ==
    \/ Start
    \/ Yield
    \/ PullFirst(<<"H", "i">>)
    \/ Tick
    \/ \E line \in PipelineLines : ProcessWrites(line)
    \/ ProcessStops(0)
    \/ ReadLine
    \/ ReadEOF
    \/ FinalWaitEnds
    \/ Deliver
    \/ PullNext
    \/ Exhausted
    \/ Complete

\* the consumer of the response keeps reading it
FairPipeline ==
    /\ WF_vars(Start)
    /\ WF_vars(Yield)
    /\ WF_vars(Tick)
    /\ WF_vars(ReadLine)
    /\ WF_vars(ReadEOF)
    /\ WF_vars(FinalWaitEnds)
    /\ WF_vars(Deliver)
    /\ WF_vars(PullNext)
    /\ WF_vars(Exhausted)
    /\ WF_vars(Complete)

SpecPipeline == InitTimed /\ [][NextPipeline]_vars /\ FairPipeline

\* invocations of both kinds against the clock, the subprocess exiting at any
\* moment, the moment a timeout expires included
NextSignals ==
    \/ \E s \in BOOLEAN : QueryStart(s, <<"H", "i">>, <<>>)
    \/ Tick
    \/ \E e \in TimedExits : ProcessExits(e.returncode, e.stdout, e.stderr)
    \/ CommunicateReturns
    \/ QueryReturns
    \/ CommunicateTimesOut
    \/ EnsureTimeoutTerminates
    \/ EnsureTimeoutKills
    \/ EnsureTimeoutReturns
    \/ \E returncode \in StopCodes : ProcessStops(returncode)
    \/ \E line \in PipelineLines : ProcessWrites(line)
    \/ ReadLine
    \/ ResumeAfterYield
    \/ ReadEOF
    \/ FinalWaitEnds

SpecSignals == InitTimed /\ [][NextSignals]_vars

-----------------------------------------------------------------------------
(* Two streaming requests served together on one event loop: the steps of    *)
(* one are interleaved with the steps of the other at every await.           *)

\* records of both grammars
ConcurrentRecords ==
    { DeltaRecord(<<"a", " ", "b">>),
      AssistantRecord(<<TextBlock(<<"a", " ", "b">>)>>),
      MessageDeltaRecord([input_tokens |-> 5, output_tokens |-> 10]) }

\* create_message for a streaming request: a ClaudeClient and a wrapper of
\* its own, whose query spawns a subprocess; the generator starts with a
\* fresh message id and its locals, and sends message_start
RequestStarts(r) ==
    /\ requests[r].pc = "none"
    /\ spawn_calls' = spawn_calls + 1
    /\ LET message_id ==
               Cardinality({q \in Requests : requests[q].pc # "none"}) + 1
       IN  requests' =
              [requests EXCEPT
                  ![r] = [NoRequest EXCEPT
                             !.pc = "streaming",
                             !.message_id = message_id,
                             !.pid = spawn_calls + 1,
                             !.out = MessageStartOf(message_id)]]
    /\ UNCHANGED <<settings, now, qpc, stream, prompt, file_paths, process,
                   yielded, failure, last_line_time, lines_read, wait_started,
                   ensure_timeout, timeout_log>>
    /\ UNCHANGED <<tvars, aggregator, handler>>

\* the subprocess of the request gives a record and the loop body of its
\* generator runs on it
RequestConsumes(r, chunk) ==
    /\ requests[r].pc = "streaming"
    /\ Len(requests[r].consumed) < MaxRecords
    /\ LET st == ProcessRecord(SessionOf(requests, r), chunk)
       IN  requests' =
              [requests EXCEPT
                  ![r] = [@ EXCEPT
                             !.consumed = Append(@, chunk),
                             !.out = @ \o st.frames,
                             !.content_started = st.content_started,
                             !.input_tokens = st.input_tokens,
                             !.output_tokens = st.output_tokens]]
    /\ UNCHANGED <<tvars, qvars, aggregator, handler>>

\* the records of the request are exhausted: the closing events
RequestEnds(r) ==
    /\ requests[r].pc = "streaming"
    /\ LET st == SessionOf(requests, r)
       IN  requests' =
              [requests EXCEPT
                  ![r] = [@ EXCEPT
                             !.pc = "finished",
                             !.out = @ \o ClosingFrames(st.content_started,
                                                        st.output_tokens)]]
    /\ UNCHANGED <<tvars, qvars, aggregator, handler>>

NextConcurrent ==
    \/ \E r \in Requests : RequestStarts(r)
    \/ \E r \in Requests, chunk \in ConcurrentRecords :
          RequestConsumes(r, chunk)
    \/ \E r \in Requests : RequestEnds(r)

SpecConcurrent == Init /\ [][NextConcurrent]_vars

-----------------------------------------------------------------------------
(* Sessions over records that carry text and usage objects, with and without *)
(* an output count.                                                          *)

TokenRecords ==
    { DeltaRecord(<<"a", " ", "b">>),
      DeltaRecord(<<" ">>),
      MessageDeltaRecord([output_tokens |-> 25]),
      MessageDeltaRecord([input_tokens |-> 5]),
      AssistantRecord(<<TextBlock(<<"a", " ", "b">>)>>),
      [type |-> "assistant",
       message |-> [content |-> <<TextBlock(<<"a", " ", "b">>)>>,
                    usage |-> [input_tokens |-> 8, output_tokens |-> 20]]],
      ResultRecord([input_tokens |-> 8, output_tokens |-> 20]) }

NextTokens ==
    \/ Start
    \/ Yield
    \/ \E chunk \in TokenRecords : Consume(chunk)
    \/ EndOfInput
    \/ Complete

SpecTokens == Init /\ [][NextTokens]_vars

\* query has raised out of its read loop: the exception reaches the
\* translator at its "async for"
Propagate ==
    /\ qpc = "done"
    /\ failure # NoFailure
    /\ Len(consumed) = Len(yielded)
    /\ UpstreamFails

\* stdout lines of a subprocess whose output breaks the read loop: a text
\* delta, a record longer than the reader's limit, a line that is not UTF-8
FailureLines ==
    { <<DocumentDelta, "\n">>, <<DocumentLong, "\n">>, <<InvalidByte, "\n">> }

\* responses of requests with attachments over a subprocess of that kind
NextFailure ==
    \/ Start
    \/ Yield
    \/ PullFirst(<<"H", "i">>)
    \/ \E line \in FailureLines : ProcessWrites(line)
    \/ ProcessStops(0)
    \/ ReadLine
    \/ ReadEOF
    \/ Deliver
    \/ PullNext
    \/ Exhausted
    \/ Propagate
    \/ Complete

SpecFailure == InitCleanup /\ [][NextFailure]_vars

-----------------------------------------------------------------------------
(* The command line and the stdin payload of an invocation *)

\* CLAUDE_ALLOWED_TOOLS_STR: unset, a lone comma, two tools
ToolSettings == { <<>>, <<",">>, <<"Read", ",", " ", "Bash">> }

\* CLAUDE_ALLOWED_DIRECTORIES_STR: unset, two directories around a blank entry
DirectorySettings == { <<>>, <<"/tmp", ",", " ", ",", "/var">> }

\* CLAUDE_DISALLOWED_TOOLS_STR: unset, a lone comma, two tools
DisallowedSettings == { <<>>, <<",">>, <<"A", ",", "B">> }

\* the keyword arguments of query: each absent or given; a tool list may hold
\* an empty name
OptionSamples ==
    [model : {None, <<"opus">>},
     system_prompt : {None, <<"Be brief">>},
     allowed_tools : {None, << <<"Bash">>, <<"Edit">> >>, << <<>> >>},
     disallowed_tools : {None, << <<"C">> >>, << <<>> >>}]

InitCommand ==
    /\ InitSession
    /\ temp_files = <<>>
    /\ fs = [f \in Files |-> "missing"]
    /\ claude_allowed_tools_str \in ToolSettings
    /\ claude_allowed_directories_str \in DirectorySettings
    /\ claude_disallowed_tools_str \in DisallowedSettings
    /\ DefaultTimeouts
    /\ now = 0
    /\ QueryIdle
    /\ aggregator = AggregatorIdle
    /\ requests = NoRequests
    /\ handler = HandlerIdle

NextCommand ==
    \E s \in BOOLEAN, p \in PromptSamples, files \in AttachmentLists,
       opts \in OptionSamples : QueryStartWith(s, p, files, opts)

SpecCommand == InitCommand /\ [][NextCommand]_vars

-----------------------------------------------------------------------------
(* messages_to_prompt over conversations *)

\* messages: a question, an empty user message, an answer, a user message
\* with an image and a text, an answer in two text blocks
TurnSamples ==
    { Message("user", StrContent(<<"H", "i">>)),
      Message("user", StrContent(<<>>)),
      Message("assistant", StrContent(<<"Y", "o">>)),
      Message("user", BlockContent(<<ImageBlock, TextBlock(<<"Q">>)>>)),
      Message("assistant", BlockContent(<<TextBlock(<<"a">>), TextBlock(<<"b">>)>>)) }

Conversations ==
    UNION {[1..n -> TurnSamples] : n \in 0..MaxMessages}

\* the handler holds a request whose messages are not yet converted
InitPrompt ==
    /\ InitSession
    /\ temp_files = <<>>
    /\ fs = [f \in Files |-> "missing"]
    /\ DefaultSettings
    /\ now = 0
    /\ QueryIdle
    /\ aggregator = AggregatorIdle
    /\ requests = NoRequests
    /\ \E messages \in Conversations, system \in {None, <<"Be brief">>} :
          handler = [HandlerIdle EXCEPT
                        !.request = [messages |-> messages, system |-> system]]

\* await AnthropicMessageAdapter.messages_to_prompt(request.messages,
\* request.system)
ConvertMessages ==
    /\ handler.pc = "idle"
    /\ LET converted == MessagesToPrompt(handler.request.messages,
                                         handler.request.system)
       IN  /\ handler' = [handler EXCEPT
                             !.pc = "converted",
                             !.prompt = converted.prompt,
                             !.system_prompt = converted.system_prompt,
                             !.temp_files = converted.temp_files]
           /\ fs' = [f \in Files |->
                       IF \E i \in DOMAIN converted.temp_files :
                             converted.temp_files[i] = f
                       THEN "present" ELSE fs[f]]
    /\ UNCHANGED <<pc, suspended, consumed, pending, out, content_started,
                   input_tokens, output_tokens, exit, temp_files>>
    /\ UNCHANGED <<qvars, aggregator, requests>>

NextPrompt == ConvertMessages

SpecPrompt == InitPrompt /\ [][NextPrompt]_vars

-----------------------------------------------------------------------------
(* Requests to the messages endpoint, up to the start of the subprocess *)

\* message lists: empty; no user message; a user message with empty text, as
\* a string and as a block; a question; a conversation that ends with an
\* empty user message; an image with a question; images alone
MessageSamples ==
    { <<>>,
      << Message("assistant", StrContent(<<"H", "i">>)) >>,
      << Message("user", StrContent(<<>>)) >>,
      << Message("user", BlockContent(<<TextBlock(<<>>)>>)) >>,
      << Message("user", StrContent(<<"H", "i">>)) >>,
      << Message("user", StrContent(<<"H", "i">>)),
         Message("assistant", StrContent(<<"Y", "o">>)),
         Message("user", StrContent(<<>>)) >>,
      << Message("user", BlockContent(<<ImageBlock, TextBlock(<<"H", "i">>)>>)) >> }
    \cup { << Message("user", BlockContent([i \in 1..n |-> ImageBlock])) >> :
               n \in 1..MaxFiles }

\* request.tools: absent or empty, one tool
ToolLists == { None, << [name |-> "get_weather"] >> }

RequestSamples ==
    [model : ModelSamples, messages : MessageSamples, stream : BOOLEAN,
     system : {None, <<"Be brief">>}, tools : ToolLists]

InitHandler ==
    /\ InitSession
    /\ temp_files = <<>>
    /\ fs = [f \in Files |-> "missing"]
    /\ DefaultSettings
    /\ now = 0
    /\ QueryIdle
    /\ aggregator = AggregatorIdle
    /\ requests = NoRequests
    /\ handler = HandlerIdle

\* create_message up to the creation of the query: the conversion, the two
\* checks, and on a rejection the finally block
CreateMessage(request) ==
    /\ handler.pc = "idle"
    /\ LET converted == MessagesToPrompt(request.messages, request.system)
           written == [f \in Files |->
                         IF \E i \in DOMAIN converted.temp_files :
                               converted.temp_files[i] = f
                         THEN "present" ELSE fs[f]]
           detail == CheckRequest(converted.prompt, request.tools)
       IN  /\ handler' =
                 [pc |-> IF detail = <<>> THEN "accepted" ELSE "responded",
                  request |-> request,
                  prompt |-> converted.prompt,
                  system_prompt |-> converted.system_prompt,
                  temp_files |-> converted.temp_files,
                  status_code |-> IF detail = <<>> THEN 0 ELSE 400,
                  detail |-> detail]
           /\ fs' = IF detail # <<>> /\ ~request.stream
                    THEN Cleanup(converted.temp_files, written)
                    ELSE written
    /\ UNCHANGED <<pc, suspended, consumed, pending, out, content_started,
                   input_tokens, output_tokens, exit, temp_files>>
    /\ UNCHANGED <<qvars, aggregator, requests>>

\* the first record is asked of ClaudeClient.query, which maps the model and
\* calls the wrapper without the attachments
ClientQuery ==
    /\ handler.pc = "accepted"
    /\ QueryStartWith(handler.request.stream, handler.prompt, <<>>,
                      [DefaultOptions EXCEPT
                          !.model = MapModel(handler.request.model),
                          !.system_prompt = handler.system_prompt])

\* the StreamingResponse is dropped before its generator is asked for the
\* first event: the body of stream_anthropic_response never runs, its
\* finally included, and the handler's own finally has skipped streaming
DiscardResponse ==
    /\ handler.pc = "accepted"
    /\ handler.request.stream
    /\ qpc = "idle"
    /\ handler' = [handler EXCEPT !.pc = "responded", !.status_code = 200]
    /\ UNCHANGED <<tvars, qvars, aggregator, requests>>

NextHandler ==
    \/ \E request \in RequestSamples : CreateMessage(request)
    \/ ClientQuery
    \/ DiscardResponse

SpecHandler == InitHandler /\ [][NextHandler]_vars

-----------------------------------------------------------------------------
(* The non-streaming aggregator over the records of an invocation *)

\* records the CLI's JSON output can hold: result text, usage, both, neither,
\* a usage object with one count, an is_error flag that is false, a record
\* flagged is_error with and without a message, a JSON scalar
AggregateSamples ==
    { [type |-> "result", result |-> <<"a", " ", "b">>,
       usage |-> [input_tokens |-> 8, output_tokens |-> 20]],
      [type |-> "result", result |-> <<"c">>],
      [type |-> "result", is_error |-> FALSE, result |-> <<>>,
       usage |-> [input_tokens |-> 5, output_tokens |-> 1]],
      [type |-> "result", usage |-> [input_tokens |-> 3]],
      [type |-> "system"],
      [type |-> "result", is_error |-> TRUE,
       result |-> <<"Model not found">>],
      [type |-> "result", is_error |-> TRUE,
       usage |-> [input_tokens |-> 8, output_tokens |-> 20]],
      [nondict |-> TRUE] }

InitAggregate ==
    /\ InitSession
    /\ temp_files = <<>>
    /\ fs = [f \in Files |-> "missing"]
    /\ DefaultSettings
    /\ now = 0
    /\ QueryIdle
    /\ aggregator = AggregatorIdle
    /\ requests = NoRequests
    /\ handler = HandlerIdle

\* cli_response_to_anthropic(cli_response, model) is called
AggregateCall(model) ==
    /\ aggregator.pc = "idle"
    /\ aggregator' = AggregatorStart(model)
    /\ UNCHANGED <<tvars, qvars, handler, requests>>

\* cli_response gives a record and the loop body runs on it
AggregateTake(response) ==
    /\ aggregator.pc = "consuming"
    /\ Len(aggregator.seen) < MaxRecords
    /\ aggregator' =
          AggregateRecord([aggregator EXCEPT !.seen = Append(@, response)],
                          response)
    /\ UNCHANGED <<tvars, qvars, handler, requests>>

\* cli_response is exhausted
AggregateReturn ==
    /\ aggregator.pc = "consuming"
    /\ aggregator' = AggregateEnd(aggregator)
    /\ UNCHANGED <<tvars, qvars, handler, requests>>

NextAggregate ==
    \/ \E model \in ModelSamples : AggregateCall(model)
    \/ \E response \in AggregateSamples : AggregateTake(response)
    \/ AggregateReturn

SpecAggregate == InitAggregate /\ [][NextAggregate]_vars

-----------------------------------------------------------------------------
(* What a consumer sees: the events, one per "data:" frame *)

Events(frames) == SelectSeq(frames, LAMBDA f : f.line = "data")

Kinds(frames) == [i \in DOMAIN Events(frames) |-> Events(frames)[i].type]

DeltaTexts(frames) ==
    LET d == SelectSeq(Events(frames), LAMBDA f : f.type = "content_block_delta")
    IN  [i \in DOMAIN d |-> d[i].text]

Positions(kinds, name) == {i \in DOMAIN kinds : kinds[i] = name}

Before(kinds, first, second) ==
    \A i \in Positions(kinds, first), j \in Positions(kinds, second) : i < j

\* the whole generator run on a finite record list that ends normally
RECURSIVE FoldRecords(_, _)
FoldRecords(st, records) ==
    IF records = <<>>
    THEN st
    ELSE FoldRecords(ProcessRecord(st, Head(records)), Tail(records))

Translate(records) ==
    LET st == FoldRecords(Session(FALSE, 0, 0, <<>>), records)
    IN  MessageStartFrames \o st.frames
        \o ClosingFrames(st.content_started, st.output_tokens)

-----------------------------------------------------------------------------
(* C1: when the record sequence is consumed to its end without a failure,  *)
(* message_start is the first event, message_stop the last and the only    *)
(* one, and every content_block_start comes before every                   *)
(* content_block_delta, every delta before content_block_stop,             *)
(* content_block_stop before message_delta, message_delta before           *)
(* message_stop.                                                           *)
C1_EventOrder ==
    exit = "normal" =>
        LET k == Kinds(out)
        IN  /\ Len(k) >= 1
            /\ k[1] = "message_start"
            /\ k[Len(k)] = "message_stop"
            /\ Cardinality(Positions(k, "message_stop")) = 1
            /\ Before(k, "message_start", "content_block_start")
            /\ Before(k, "content_block_start", "content_block_delta")
            /\ Before(k, "content_block_delta", "content_block_stop")
            /\ Before(k, "content_block_stop", "message_delta")
            /\ Cardinality(Positions(k, "message_delta")) = 1
            /\ Before(k, "message_delta", "message_stop")

C1_Witness ==
    /\ exit = "normal"
    /\ Cardinality(Positions(Kinds(out), "content_block_delta")) >= 2
    /\ Positions(Kinds(out), "content_block_start") # {}
    /\ Positions(Kinds(out), "content_block_stop") # {}

(* C2: an empty record sequence yields exactly message_start, message_delta *)
(* and message_stop, in that order, and no content-block event.            *)
C2_EmptyStream ==
    (exit = "normal" /\ consumed = <<>>) =>
        /\ Kinds(out) = <<"message_start", "message_delta", "message_stop">>
        /\ Len(out) = 6

C2_Witness == exit = "normal" /\ consumed = <<>> /\ Len(out) = 6

(* C3: the same non-empty texts, arriving as real-time content_block_delta  *)
(* records or as legacy assistant records of one text block each, give the  *)
(* same sequence of event kinds and the same content_block_delta texts.    *)
NonEmptyTexts == TextSamples \ {<<>>}

IsRealTime(records) ==
    \A i \in DOMAIN records : records[i] \in {DeltaRecord(t) : t \in NonEmptyTexts}

IsLegacy(records) ==
    \A i \in DOMAIN records :
        records[i] \in {AssistantRecord(<<TextBlock(t)>>) : t \in NonEmptyTexts}

LegacyOf(records) ==
    [i \in DOMAIN records |->
        AssistantRecord(<<TextBlock(records[i].event.delta.text)>>)]

RealTimeOf(records) ==
    [i \in DOMAIN records |-> DeltaRecord(records[i].message.content[1].text)]

HasUsage(chunk) ==
    /\ IsDict(chunk)
    /\ \/ Get(chunk, "type", "") \in {"assistant"} /\ "message" \in DOMAIN chunk
          /\ "usage" \in DOMAIN chunk.message
       \/ Get(chunk, "type", "") = "result" /\ "usage" \in DOMAIN chunk
       \/ Get(chunk, "type", "") = "stream_event"
          /\ Get(chunk.event, "type", "") = "message_delta"
          /\ "usage" \in DOMAIN chunk.event

UsageOf(chunk) ==
    CASE chunk.type = "assistant" -> chunk.message.usage
      [] chunk.type = "result" -> chunk.usage
      [] OTHER -> chunk.event.usage

EmitsText(chunk) ==
    DeltaTexts(ProcessRecord(Session(TRUE, 0, 0, <<>>), chunk).frames) # <<>>

UsageIndexes(records) == {i \in DOMAIN records : HasUsage(records[i])}

LastUsageIndex(records) ==
    CHOOSE i \in UsageIndexes(records) : \A j \in UsageIndexes(records) : j <= i

UsageSettled(records) ==
    /\ UsageIndexes(records) # {}
    /\ \A j \in DOMAIN records :
          j > LastUsageIndex(records) => ~EmitsText(records[j])

FinalMessageDelta(frames) ==
    LET d == SelectSeq(Events(frames), LAMBDA f : f.type = "message_delta")
    IN  d[Len(d)]

C4_UsageLastWriteWins ==
    (pc # "created" /\ UsageSettled(consumed)) =>
        LET u == UsageOf(consumed[LastUsageIndex(consumed)])
        IN  /\ "input_tokens" \in DOMAIN u => input_tokens = u.input_tokens
            /\ "output_tokens" \in DOMAIN u => output_tokens = u.output_tokens
            /\ exit = "normal" =>
                  /\ FinalMessageDelta(out).output_tokens = output_tokens
                  /\ "output_tokens" \in DOMAIN u =>
                        FinalMessageDelta(out).output_tokens = u.output_tokens

C4_Witness ==
    /\ exit = "normal"
    /\ consumed = << MessageDeltaRecord([input_tokens |-> 5, output_tokens |-> 10]),
                     ResultRecord([input_tokens |-> 8, output_tokens |-> 20]) >>
    /\ input_tokens = 8
    /\ FinalMessageDelta(out).output_tokens = 20

(* C5: once the generator has started, every attachment temp file has been  *)
(* unlinked by the time it finishes, on every exit path (normal end, early  *)
(* end of the upstream, upstream failure, close at a yield): no file is left*)
(* present, a missing file is tolerated, and a file that cannot be deleted  *)
(* does not keep the others from being deleted.                            *)
C5_CleanupOnEveryExit ==
    pc = "finished" =>
        /\ exit \in {"normal", "error", "closed"}
        /\ \A i \in DOMAIN temp_files : fs[temp_files[i]] # "present"

C5_Witness ==
    /\ pc = "finished"
    /\ exit = "closed"
    /\ Len(out) = 3
    /\ Len(temp_files) = 2
    /\ fs[temp_files[1]] = "locked"
    /\ fs[temp_files[2]] = "deleted"

-----------------------------------------------------------------------------
(* What a caller of query sees *)

Blank(text) == \A i \in 1..Len(text) : IsSpace(text[i])

NonStreamingExit(codes) ==
    /\ qpc \in {"yielded", "done"}
    /\ ~stream
    /\ process.state = "exited"
    /\ process.returncode \in codes

StartsWith(text, head) ==
    Len(text) >= Len(head) /\ SubSeq(text, 1, Len(head)) = head

IsErrorObject(text) ==
    /\ JsonLoads(text).ok
    /\ IsDict(JsonLoads(text).value)
    /\ "is_error" \in DOMAIN JsonLoads(text).value
    /\ JsonLoads(text).value.is_error

EmbeddedMessage(text) ==
    IF "result" \in DOMAIN JsonLoads(text).value
    THEN JsonLoads(text).value.result
    ELSE <<"Unknown CLI error">>

GenericMessage(code) == <<"Command failed with exit code ", ToString(code)>>

FailedPrefix(code) == <<"Claude CLI failed (exit ", ToString(code), "): ">>

(* C6: query with attachments while the tool allow-list setting or the      *)
(* directory allow-list setting is blank raises ValueError and spawns no    *)
(* subprocess, streaming or not.                                            *)
C6_AttachmentsNeedAllowLists ==
    (/\ qpc # "idle"
     /\ file_paths # <<>>
     /\ Blank(claude_allowed_tools_str) \/ Blank(claude_allowed_directories_str)) =>
        /\ failure.type = "ValueError"
        /\ failure = IF Blank(claude_allowed_tools_str)
                     THEN ToolsNotConfigured
                     ELSE DirectoriesNotConfigured
        /\ spawn_calls = 0
        /\ process.state = "none"
        /\ yielded = <<>>
        /\ qpc = "done"

C6_Witness ==
    /\ qpc = "done"
    /\ stream
    /\ file_paths # <<>>
    /\ claude_allowed_tools_str = <<"R", ",", " ">>
    /\ claude_allowed_directories_str = <<" ">>
    /\ failure = DirectoriesNotConfigured
    /\ spawn_calls = 0

(* C7 as stated: after a non-zero exit the failure message is the embedded  *)
(* result message if stdout is JSON with is_error, otherwise the trimmed    *)
(* stdout if there is any, otherwise the trimmed stderr if there is any,    *)
(* otherwise the generic text.  Stated for stdout that is empty, not JSON,  *)
(* or a JSON object.                                                        *)
ClaimedMessage(stdout, stderr, code) ==
    IF IsErrorObject(stdout) THEN EmbeddedMessage(stdout)
    ELSE IF Strip(stdout) # <<>> THEN Strip(stdout)
    ELSE IF Strip(stderr) # <<>> THEN Strip(stderr)
    ELSE GenericMessage(code)

IsJsonScalar(text) == JsonLoads(text).ok /\ ~IsDict(JsonLoads(text).value)

AmendedMessage(stdout, stderr, code) ==
    IF IsErrorObject(stdout) /\ EmbeddedMessage(stdout) # <<>>
    THEN EmbeddedMessage(stdout)
    ELSE IF ~JsonLoads(stdout).ok /\ ~Blank(stdout) THEN Strip(stdout)
    ELSE IF ~Blank(stderr) THEN Strip(stderr)
    ELSE GenericMessage(code)

ParseFailurePrefix ==
    <<"Failed to parse CLI output: ", "JSONDecodeError", ". Output preview: ">>

RaisesParseFailure ==
    /\ failure.type = "RuntimeError"
    /\ StartsWith(failure.message, ParseFailurePrefix)
    /\ LET preview == SubSeq(failure.message, Len(ParseFailurePrefix) + 1,
                             Len(failure.message))
       IN  /\ Len(preview) <= PreviewLen
           /\ StartsWith(process.stdout, preview)
           /\ Len(preview) = Len(process.stdout) \/ Len(preview) = PreviewLen
    /\ yielded = <<>>

C9_ErrorFlagOnZeroExit ==
    (NonStreamingExit({0}) /\ IsErrorObject(process.stdout)) =>
        /\ failure = Raise("RuntimeError",
                           <<"Claude CLI error: ">> \o EmbeddedMessage(process.stdout))
        /\ yielded = <<>>
        /\ qpc = "done"

C9_Witness ==
    /\ NonStreamingExit({0})
    /\ process.stdout = Object(<<MemberIsErrorTrue>>)
    /\ failure.message = <<"Claude CLI error: ", "Unknown CLI error">>

(* C10: a zero exit with nothing on stdout yields no record and raises no   *)
(* failure.                                                                 *)
C10_EmptyStdout ==
    (NonStreamingExit({0}) /\ process.stdout = <<>>) =>
        /\ yielded = <<>>
        /\ failure = NoFailure
        /\ qpc = "done"

C10_Witness ==
    /\ NonStreamingExit({0})
    /\ process.stdout = <<>>
    /\ process.stderr = <<"E", "r", "r", " ">>
    /\ qpc = "done"
    /\ failure = NoFailure

-----------------------------------------------------------------------------
(* What the subprocess and the clock show of a timed invocation *)

Sent(signal) == \E i \in DOMAIN process.signals : process.signals[i] = signal

\* a streaming subprocess that has got its prompt, is alive and has written
\* nothing for longer than the idle window, n lines into its output
SilentAt(n) ==
    /\ stream
    /\ qpc \in {"reading", "yielded"}
    /\ process.state = "running"
    /\ process.stdin = "closed"
    /\ Len(process.lines) = n
    /\ now - process.wrote_at > claude_stream_idle_timeout_seconds

(* C11: a streaming subprocess that stays alive and writes no line for       *)
(* longer than the idle window is eventually sent a terminate signal, and    *)
(* the record sequence ends (unless the subprocess writes or exits after     *)
(* all).                                                                     *)
C11_IdleTerminates ==
    \A n \in 0..(MaxLines + 1) :
        SilentAt(n) ~> \/ Sent("SIGTERM") /\ qpc = "done"
                       \/ process.state # "running"
                       \/ Len(process.lines) > n

\* the records of the stdout lines that are not blank and parse, in order
ParsedLines(lines) ==
    LET good == SelectSeq(lines, LAMBDA l : ~Blank(l) /\ JsonLoads(l).ok)
    IN  [i \in DOMAIN good |-> JsonLoads(good[i]).value]

IdleEnded == IdleTimeoutLogged \in timeout_log

\* the last n events of a response
LastKinds(frames, n) ==
    LET k == Kinds(frames)
    IN  IF Len(k) < n THEN k ELSE SubSeq(k, Len(k) - n + 1, Len(k))

(* C12: when the idle timeout ends a streaming invocation, query raises      *)
(* nothing, the records yielded before it stay as they were, in stdout       *)
(* order, and the translator closes the response: content_block_stop if a    *)
(* block was started, message_delta, message_stop.  A response that is read  *)
(* on does reach that end.                                                   *)
C12_IdleEndsGracefully ==
    /\ [](IdleEnded =>
            /\ failure = NoFailure
            /\ exit # "error"
            /\ yielded = ParsedLines(SubSeq(process.lines, 1, lines_read))
            /\ exit = "normal" =>
                  /\ consumed = yielded
                  /\ out = Translate(yielded)
                  /\ IF content_started
                     THEN LastKinds(out, 3) = <<"content_block_stop",
                                                "message_delta", "message_stop">>
                     ELSE /\ LastKinds(out, 2) = <<"message_delta", "message_stop">>
                          /\ Positions(Kinds(out), "content_block_stop") = {})
    /\ [][IdleEnded => yielded' = yielded]_vars
    /\ (IdleEnded ~> exit = "normal")

C12_Witness ==
    /\ IdleEnded
    /\ exit = "normal"
    /\ content_started
    /\ Len(yielded) = 1
    /\ lines_read < Len(process.lines)
    /\ Sent("SIGTERM")

\* a non-streaming subprocess still running when the absolute timeout is over
Overdue ==
    /\ ~stream
    /\ spawn_calls = 1
    /\ process.state = "running"
    /\ now - wait_started >= claude_process_timeout_seconds

TimeoutLogged == "Non-streaming CLI timeout exceeded" \in timeout_log

(* C13: a non-streaming subprocess that has not completed when the absolute  *)
(* timeout is over is sent a terminate signal and, if it still has not       *)
(* exited after the grace period, a kill signal (never a kill before a       *)
(* terminate, never before the grace period is over); the caller gets the    *)
(* timeout failure, which carries the configured timeout, and no record.     *)
C13_TimeoutEscalates ==
    /\ [](TimeoutLogged =>
            /\ failure = Raise("RuntimeError",
                               <<"Claude CLI timed out after ",
                                 ToString(claude_process_timeout_seconds),
                                 "s (terminated)">>)
            /\ yielded = <<>>
            /\ qpc = "done"
            /\ Sent("SIGTERM") \/ process.state = "exited")
    /\ [][(~TimeoutLogged /\ TimeoutLogged' /\ process.state = "running") =>
             Sent("SIGTERM")']_vars
    /\ [](\A i \in DOMAIN process.signals :
            process.signals[i] = "SIGKILL" =>
                \E j \in 1..(i - 1) : process.signals[j] = "SIGTERM")
    /\ [][(~Sent("SIGKILL") /\ Sent("SIGKILL")') =>
             now - ensure_timeout.since >= claude_process_kill_grace_seconds]_vars
    /\ (Overdue ~> (Sent("SIGTERM") \/ process.state = "exited"))
    /\ (Overdue ~> (Sent("SIGKILL") \/ process.state = "exited"))
    /\ ((Overdue /\ qpc = "communicating")
           ~> (TimeoutLogged \/ process.state = "exited"))

C13_Witness ==
    /\ TimeoutLogged
    /\ process.state = "running"
    /\ process.signals = <<"SIGTERM", "SIGTERM", "SIGKILL">>
    /\ failure.type = "RuntimeError"
    /\ yielded = <<>>
    /\ now = claude_process_timeout_seconds + claude_process_kill_grace_seconds

\* the stdout line that the step being taken has read
LineRead == process.lines[lines_read + 1]

(* C17: in a streaming invocation the records yielded are the JSON values of *)
(* the stdout lines read so far that are not blank and parse, in stdout      *)
(* order, and when the invocation ends without the idle timeout every line   *)
(* has been read.  A line that is not JSON is skipped and the loop reads on; *)
(* a blank line is skipped and the loop reads on unless the idle timeout     *)
(* ends it; nothing is raised.                                               *)
C17_StreamRecords ==
    /\ [](stream =>
            /\ failure = NoFailure
            /\ yielded = ParsedLines(SubSeq(process.lines, 1, lines_read)))
    /\ []((stream /\ qpc = "done" /\ ~IdleEnded) =>
            /\ lines_read = Len(process.lines)
            /\ yielded = ParsedLines(process.lines))
    /\ [][(lines_read' = lines_read + 1 /\ ~JsonLoads(LineRead).ok) =>
             /\ yielded' = yielded
             /\ failure' = NoFailure
             /\ IF Blank(LineRead)
                THEN qpc' = "reading" \/ (qpc' = "waiting" /\ IdleEnded')
                ELSE qpc' = "reading" /\ ~IdleEnded']_vars

\* the record is a JSON object that has the key
Carries(record, key) == IsDict(record) /\ key \in DOMAIN record

\* the record is flagged is_error
Flagged(record) == IsDict(record) /\ Get(record, "is_error", FALSE)

\* the position of the last record that has the key, 0 when none has
LastWith(records, key) ==
    LET having == {i \in 1..Len(records) : Carries(records[i], key)}
    IN  IF having = {} THEN 0
        ELSE CHOOSE i \in having : \A j \in having : j <= i

(* C14: on records none of which is flagged is_error the aggregator does not *)
(* raise, and the response it returns has the text of the last record with a *)
(* result field (empty when none has), the token counts of the last record   *)
(* with a usage object (a count it lacks, or no such record, gives 0; counts *)
(* of earlier records are not added), stop_reason "end_turn" and the model   *)
(* it was called with.                                                       *)
C14_LastWins ==
    LET records == aggregator.seen
        r == LastWith(records, "result")
        u == LastWith(records, "usage")
        usage == IF u = 0 THEN EmptyDict ELSE records[u].usage
    IN  (\A i \in 1..Len(records) : ~Flagged(records[i])) =>
           /\ aggregator.pc # "raised"
           /\ aggregator.failure = NoFailure
           /\ aggregator.pc = "returned" =>
                 /\ aggregator.returned.content =
                       <<TextBlock(IF r = 0 THEN <<>> ELSE records[r].result)>>
                 /\ aggregator.returned.usage =
                       [input_tokens |-> Get(usage, "input_tokens", 0),
                        output_tokens |-> Get(usage, "output_tokens", 0)]
                 /\ aggregator.returned.stop_reason = "end_turn"
                 /\ aggregator.returned.model = aggregator.model

C14_Witness ==
    /\ aggregator.pc = "returned"
    /\ aggregator.model = <<"sonnet">>
    /\ aggregator.seen =
          << [type |-> "result", result |-> <<"a", " ", "b">>,
              usage |-> [input_tokens |-> 8, output_tokens |-> 20]],
             [type |-> "result", usage |-> [input_tokens |-> 3]],
             [type |-> "result", result |-> <<"c">>] >>
    /\ aggregator.returned.content = <<TextBlock(<<"c">>)>>
    /\ aggregator.returned.usage = [input_tokens |-> 3, output_tokens |-> 0]

(* C15: the aggregator raises exactly when it has consumed a record flagged  *)
(* is_error: the flagged record is the last one it consumed, whatever its    *)
(* position, the failure carries the record's result text, no response is    *)
(* returned, and nothing is consumed afterwards.                             *)
C15_ErrorAborts ==
    /\ []((\E i \in 1..Len(aggregator.seen) : Flagged(aggregator.seen[i])) <=>
             aggregator.pc = "raised")
    /\ [](aggregator.pc = "raised" =>
             LET records == aggregator.seen
                 n == Len(records)
             IN  /\ Flagged(records[n])
                 /\ \A i \in 1..(n - 1) : ~Flagged(records[i])
                 /\ aggregator.failure.type = "RuntimeError"
                 /\ Carries(records[n], "result") =>
                       aggregator.failure.message =
                           CliErrorPrefix \o records[n].result
                 /\ aggregator.returned = None)
    /\ [][aggregator.pc = "raised" => aggregator' = aggregator]_vars

C15_Witness ==
    /\ aggregator.pc = "raised"
    /\ Len(aggregator.seen) = 3
    /\ Carries(aggregator.seen[1], "usage")
    /\ aggregator.failure.message =
          <<"Claude CLI error: ", "Model not found">>
    /\ aggregator.returned = None

(* C16: on zero records the aggregator returns a response with empty text    *)
(* and both token counts 0 and raises nothing; a record without a usage      *)
(* object leaves the counts as they were, so they are 0 when no record has   *)
(* one.                                                                      *)
C16_EmptyInput ==
    /\ [](aggregator.seen = <<>> =>
             /\ aggregator.failure = NoFailure
             /\ aggregator.pc # "raised"
             /\ aggregator.pc = "returned" =>
                   /\ aggregator.returned.content = <<TextBlock(<<>>)>>
                   /\ aggregator.returned.usage =
                         [input_tokens |-> 0, output_tokens |-> 0])
    /\ []((/\ aggregator.pc = "returned"
           /\ LastWith(aggregator.seen, "usage") = 0) =>
             aggregator.returned.usage =
                 [input_tokens |-> 0, output_tokens |-> 0])
    /\ [][(/\ Len(aggregator'.seen) = Len(aggregator.seen) + 1
           /\ ~Carries(aggregator'.seen[Len(aggregator'.seen)], "usage")) =>
              /\ aggregator'.input_tokens = aggregator.input_tokens
              /\ aggregator'.output_tokens = aggregator.output_tokens]_vars

C16_Witness ==
    /\ aggregator.pc = "returned"
    /\ aggregator.seen = <<>>
    /\ aggregator.returned.content = <<TextBlock(<<>>)>>
    /\ aggregator.returned.usage = [input_tokens |-> 0, output_tokens |-> 0]

\* how many elements of the argument vector are the text
Count(args, text) == Cardinality({i \in DOMAIN args : args[i] = text})

\* the elements that follow an occurrence of the flag, in order
ValuesOf(args, flag) ==
    LET at == SelectSeq([i \in DOMAIN args |-> i],
                        LAMBDA i : args[i] = Flag(flag) /\ i < Len(args))
    IN  [k \in DOMAIN at |-> args[at[k] + 1]]

OptionalFlags ==
    {"--model", "--append-system-prompt", "--allowed-tools",
     "--disallowed-tools"}

(* C18: the argument vector of every subprocess starts with the binary path, *)
(* "--print", "--permission-mode", "bypassPermissions"; it has one           *)
(* "--output-format", whose value is "stream-json", with "--verbose" and     *)
(* "--include-partial-messages" present, exactly when streaming, and "json"  *)
(* with neither otherwise; "--model", "--append-system-prompt",              *)
(* "--allowed-tools" and "--disallowed-tools" each occur at most once and    *)
(* then with a non-empty value; and a non-empty prompt is no element of it.  *)
C18_ArgumentVector ==
    process.state # "none" =>
       LET args == process.args
       IN  /\ Len(args) >= 4
           /\ SubSeq(args, 1, 4) =
                 <<cli_path, Flag("--print"), Flag("--permission-mode"),
                   Flag("bypassPermissions")>>
           /\ Count(args, Flag("--output-format")) = 1
           /\ ValuesOf(args, "--output-format") =
                 << IF stream THEN Flag("stream-json") ELSE Flag("json") >>
           /\ Count(args, Flag("--verbose")) = (IF stream THEN 1 ELSE 0)
           /\ Count(args, Flag("--include-partial-messages")) =
                 (IF stream THEN 1 ELSE 0)
           /\ \A flag \in OptionalFlags :
                 /\ Count(args, Flag(flag)) <= 1
                 /\ \A k \in DOMAIN ValuesOf(args, flag) :
                       ValuesOf(args, flag)[k] # <<>>
                 /\ Len(ValuesOf(args, flag)) = Count(args, Flag(flag))
           /\ prompt # <<>> => Count(args, prompt) = 0

\* the read instruction for an attachment
ReadInstruction(f) ==
    <<"Please use your Read tool to analyze this file: ">> \o Absolute(f)

\* the read instructions in attachment order, each followed by a blank line,
\* then the prompt
RECURSIVE Payload(_, _)
Payload(files, p) ==
    IF files = <<>> THEN p
    ELSE ReadInstruction(Head(files)) \o <<"\n", "\n">> \o Payload(Tail(files), p)

(* C19: a subprocess started with attachments has no attachment path among  *)
(* its arguments; its stdin payload is one read instruction per attachment,  *)
(* in attachment order and naming the absolute path, then the prompt; its    *)
(* arguments carry one "--allowed-tools" whose value is the configured tool  *)
(* list, whatever allowed_tools the caller gave, and one "--add-dir" per     *)
(* configured directory, in order.                                           *)
C19_Attachments ==
    (process.state # "none" /\ file_paths # <<>>) =>
       LET args == process.args
       IN  /\ Strip(claude_allowed_tools_str) # <<>>
           /\ Strip(claude_allowed_directories_str) # <<>>
           /\ \A i \in DOMAIN file_paths :
                 /\ Count(args, Absolute(file_paths[i])) = 0
                 /\ Count(args, <<ToString(file_paths[i])>>) = 0
                 /\ \A k \in DOMAIN args :
                       \A j \in DOMAIN args[k] :
                          args[k][j] # ToString(file_paths[i])
           /\ process.input = Payload(file_paths, prompt)
           /\ ValuesOf(args, "--allowed-tools") =
                 << Join(CommaList(claude_allowed_tools_str), <<" ">>) >>
           /\ Count(args, Flag("--allowed-tools")) = 1
           /\ ValuesOf(args, "--add-dir") =
                 CommaList(claude_allowed_directories_str)
           /\ Count(args, Flag("--add-dir")) =
                 Len(CommaList(claude_allowed_directories_str))

C19_Witness ==
    /\ process.state = "running"
    /\ file_paths = <<1, 2>>
    /\ prompt = <<"H", "i">>
    /\ claude_allowed_tools_str = <<"Read", ",", " ", "Bash">>
    /\ ValuesOf(process.args, "--allowed-tools") = << <<"Read", " ", "Bash">> >>
    /\ ValuesOf(process.args, "--add-dir") = << <<"/tmp">>, <<"/var">> >>
    /\ ValuesOf(process.args, "--disallowed-tools") = << <<"A", " ", "B", " ", "C">> >>
    /\ process.input =
          <<"Please use your Read tool to analyze this file: ", "/cwd/", "1",
            "\n", "\n",
            "Please use your Read tool to analyze this file: ", "/cwd/", "2",
            "\n", "\n", "H", "i">>

\* the request the handler has taken is one the endpoint rejects: no
\* message, no user message, an empty prompt, or tools
Rejectable ==
    /\ handler.pc # "idle"
    /\ \/ handler.request.messages = <<>>
       \/ \A i \in DOMAIN handler.request.messages :
             handler.request.messages[i].role # "user"
       \/ handler.prompt = <<>>
       \/ handler.request.tools # <<>>

EndsWith(text, tail) ==
    /\ Len(text) >= Len(tail)
    /\ SubSeq(text, Len(text) - Len(tail) + 1, Len(text)) = tail

\* the places of the text where a turn entry opens
TurnOpeners(text) ==
    SelectSeq([i \in DOMAIN text |-> i], LAMBDA i : text[i] = "<turn role=\"")

\* at the place the text holds the turn entry of the message
TurnAt(text, at, message) ==
    LET said == ExtractTextContent(message.content)
        end == at + 2 + Len(said) + 1
    IN  /\ end <= Len(text)
        /\ text[at + 1] = message.role
        /\ text[at + 2] = "\">"
        /\ SubSeq(text, at + 3, end - 1) = said
        /\ text[end] = "</turn>"

C22_ErrorRecordAborts ==
    (\E i \in DOMAIN consumed : Flagged(consumed[i])) =>
       /\ exit # "normal"
       /\ \A k \in DOMAIN Kinds(out) :
             Kinds(out)[k] \notin {"message_delta", "message_stop"}

(* C23: no step of a stream session lowers the running input token count or  *)
(* the running output token count.                                           *)
C23_CountsNeverLowered ==
    [][/\ input_tokens' >= input_tokens
       /\ output_tokens' >= output_tokens]_vars

\* how many of the events sent are content_block_start
BlockStarts == Cardinality({k \in DOMAIN Kinds(out) :
                              Kinds(out)[k] = "content_block_start"})

(* C24: whatever records of the two grammars the translator has consumed, in *)
(* any order and number, it has sent at most one content_block_start.        *)
C24_OneBlockStart == BlockStarts <= 1

C24_Witness ==
    /\ Len(consumed) = 3
    /\ consumed[1] = AssistantRecord(<<TextBlock(<<"a", " ", "b">>)>>)
    /\ consumed[2] =
          StreamEvent([type |-> "content_block_start", index |-> 1,
                       content_block |-> [type |-> "text", text |-> <<>>]])
    /\ consumed[3] = DeltaRecord(<<"a", " ", "b">>)
    /\ exit = "normal"
    /\ BlockStarts = 1

(* C25: when a streaming invocation that the idle timeout ended is over and *)
(* the subprocess has not exited, which is when the kill-grace period has    *)
(* run out after the terminate signal, the subprocess has been sent the kill *)
(* signal.                                                                   *)
C25_IdleEscalates ==
    (stream /\ IdleEnded /\ qpc = "done" /\ process.state = "running") =>
       Sent("SIGKILL")

(* C26: a subprocess that has been started has had its stdin closed, in      *)
(* streaming and non-streaming invocations and for every prompt, the empty   *)
(* one included.                                                             *)
C26_StdinClosed ==
    process.state # "none" => process.stdin = "closed"

(* C27: an invocation that ends with its subprocess exited on its own with a *)
(* non-zero code ends with a failure for its caller, in streaming and in     *)
(* non-streaming mode.                                                       *)
C27_ExitCodeSurfaces ==
    [][(/\ qpc # "done"
        /\ qpc' = "done"
        /\ process'.state = "exited"
        /\ process'.signals = <<>>
        /\ process'.returncode # 0) => failure' # NoFailure]_vars

(* C28: once an invocation that spawned a subprocess is over, by return, by  *)
(* failure or by the consumer closing it, the subprocess has exited or has   *)
(* been sent a terminate or kill signal.                                     *)
C28_NoProcessLeftRunning ==
    (qpc = "done" /\ spawn_calls > 0) =>
       (process.state = "exited" \/ process.signals # <<>>)

(* C29: once the handling of a request is over, none of the temp files that  *)
(* the content extraction created for it is left on disk, in streaming and   *)
(* non-streaming mode.                                                       *)
C29_TempFilesDeleted ==
    handler.pc = "responded" =>
       \A i \in DOMAIN handler.temp_files :
           fs[handler.temp_files[i]] # "present"

(* C30: the orchestrator invoked for an accepted request receives the        *)
(* attachment paths the adapter extracted; with a blank tool or directory    *)
(* allow-list a request with attachments spawns no subprocess and fails.     *)
C30_AttachmentsReachOrchestrator ==
    (handler.pc = "accepted" /\ qpc # "idle") =>
       /\ file_paths = handler.temp_files
       /\ ( /\ handler.temp_files # <<>>
            /\ \/ claude_allowed_tools_str = <<>>
               \/ claude_allowed_directories_str = <<>> ) =>
              (spawn_calls = 0 /\ failure # NoFailure)

\* the data lines sent so far that belong to the content block
BlockEvents ==
    SelectSeq(out, LAMBDA f :
        /\ f.line = "data"
        /\ f.type \in {"content_block_start", "content_block_delta",
                       "content_block_stop"})

(* C31: every content_block_start, content_block_delta and content_block_stop *)
(* sent in a session carries index 0, whatever index the CLI's own events     *)
(* carry.                                                                     *)
C31_FixedIndex ==
    \A i \in DOMAIN BlockEvents : BlockEvents[i].index = content_index

\* the CLI's own content_block_stop
CliBlockStop == StreamEvent([type |-> "content_block_stop", index |-> 0])

(* C32: a session that ends normally has sent content_block_stop once if a    *)
(* content block was started and not at all otherwise, after every            *)
(* content_block_delta, however many content_block_stop events the CLI sent   *)
(* and wherever they stood; a delta that follows a CLI stop is sent before    *)
(* the translator's own stop.                                                 *)
C32_OneBlockStop ==
    exit = "normal" =>
        LET k == Kinds(out)
        IN  /\ Cardinality(Positions(k, "content_block_stop")) =
                  (IF content_started THEN 1 ELSE 0)
            /\ content_started <=> BlockStarts = 1
            /\ Before(k, "content_block_delta", "content_block_stop")

C32_Witness ==
    /\ exit = "normal"
    /\ Len(consumed) = 3
    /\ consumed[1] = DeltaRecord(<<"a", " ", "b">>)
    /\ consumed[2] = CliBlockStop
    /\ consumed[3] = DeltaRecord(<<"a", " ", "b">>)
    /\ Kinds(out) = <<"message_start", "content_block_start",
                      "content_block_delta", "content_block_delta",
                      "content_block_stop", "message_delta", "message_stop">>

\* the kinds of event among the frames
HasKind(frames, name) == Positions(Kinds(frames), name) # {}

CliMessageStart == StreamEvent([type |-> "message_start"])

\* the record that was consumed last is still being worked on: nothing of
\* what it yields has been sent
JustConsumed == pc = "streaming" /\ consumed # <<>> /\ ~suspended

(* C34: a session sends message_start at most once, as the first thing it     *)
(* sends and with zero usage; it has sent it before it consumes a record and  *)
(* when it ends normally; a message_start of the CLI yields nothing.          *)
C34_OneMessageStart ==
    /\ Cardinality(Positions(Kinds(out \o pending), "message_start")) <= 1
    /\ out # <<>> => out[1] = MessageStartFrames[1]
    /\ Len(out) >= 2 => out[2] = MessageStartFrames[2]
    /\ (consumed # <<>> \/ exit = "normal") =>
          /\ Len(out) >= 2
          /\ Positions(Kinds(out), "message_start") = {1}
          /\ Events(out)[1].usage = [input_tokens |-> 0, output_tokens |-> 0]
    /\ (JustConsumed /\ consumed[Len(consumed)] = CliMessageStart) =>
          pending = <<>>

C34_Witness ==
    /\ exit = "normal"
    /\ Len(consumed) = 3
    /\ consumed[1] = CliMessageStart
    /\ consumed[2] = CliMessageStart
    /\ consumed[3] = DeltaRecord(<<"a", " ", "b">>)
    /\ Positions(Kinds(out), "message_start") = {1}

(* C35: when the upstream raises while the translator awaits its next record, *)
(* the generator finishes with that failure: what it has sent, the events of  *)
(* the records it consumed, stays as it is and nothing is sent after it (no   *)
(* content_block_stop, message_delta or message_stop), and the temp files are *)
(* unlinked.                                                                  *)
C35_UpstreamFailure ==
    /\ failure # NoFailure => pc # "closing" /\ exit \in {"none", "error"}
    /\ (failure # NoFailure /\ pc = "finished") =>
          /\ exit = "error"
          /\ consumed = yielded
          /\ pending = <<>>
          /\ out = MessageStartFrames
                   \o FoldRecords(Session(FALSE, 0, 0, <<>>), consumed).frames
          /\ ~HasKind(out, "content_block_stop")
          /\ ~HasKind(out, "message_delta")
          /\ ~HasKind(out, "message_stop")
          /\ \A i \in DOMAIN temp_files : fs[temp_files[i]] # "present"

C35_Witness ==
    /\ failure.type = "ValueError"
    /\ exit = "error"
    /\ pc = "finished"
    /\ Len(consumed) = 1
    /\ Kinds(out) = <<"message_start", "content_block_start",
                      "content_block_delta">>
    /\ Len(temp_files) = 2
    /\ fs[temp_files[1]] = "deleted"
    /\ fs[temp_files[2]] = "locked"

EnsureTimeoutLogged == "CLI process timeout exceeded; terminating" \in timeout_log

(* C36: a terminate or kill that the ensure_timeout task, the non-streaming  *)
(* timeout handler or the streaming idle check sends to a subprocess that has *)
(* exited raises nothing, and the invocation ends as it does when the signal  *)
(* is delivered: with the timeout failure, or with the graceful end of the    *)
(* stream.                                                                    *)
C36_SignalsIdempotent ==
    /\ [](failure.type # "ProcessLookupError")
    /\ [](ensure_timeout.pc # "failed")
    /\ [][(~TimeoutLogged /\ TimeoutLogged') =>
             /\ failure' = TimedOut(claude_process_timeout_seconds)
             /\ qpc' = "done"
             /\ yielded' = <<>>]_vars
    /\ [][(~IdleEnded /\ IdleEnded') =>
             /\ failure' = NoFailure
             /\ qpc' = "waiting"
             /\ yielded' = yielded]_vars
    /\ [][(~EnsureTimeoutLogged /\ EnsureTimeoutLogged') =>
             ensure_timeout'.pc = "grace"]_vars

C36_Witness ==
    /\ TimeoutLogged
    /\ EnsureTimeoutLogged
    /\ process.state = "exited"
    /\ process.signals = <<>>
    /\ process.exited_at = claude_process_timeout_seconds
    /\ failure = TimedOut(claude_process_timeout_seconds)
    /\ ensure_timeout.pc = "done"

(* C37: the idle check terminates a streaming subprocess only if the          *)
(* subprocess has let more than the idle window pass between two of its       *)
(* stdout lines, or since its last one; the time the consumer takes between   *)
(* two records does not count.                                                *)
C37_IdleMeasuresOutput ==
    [][(~IdleEnded /\ IdleEnded') =>
          \/ process.max_gap > claude_stream_idle_timeout_seconds
          \/ now - process.wrote_at > claude_stream_idle_timeout_seconds]_vars

\* what a request with that message id sends when it is served alone on the
\* records, up to the end of the records or to the closing events
AloneOut(message_id, records, finished) ==
    LET st == FoldRecords(Session(FALSE, 0, 0, <<>>), records)
    IN  MessageStartOf(message_id) \o st.frames
        \o (IF finished
            THEN ClosingFrames(st.content_started, st.output_tokens)
            ELSE <<>>)

(* C38: of two streaming requests served together, in any interleaving, each  *)
(* has its own subprocess, its own message id and its own content_started and *)
(* token counts, and sends the events it sends when it is served alone on the *)
(* same records.                                                              *)
C38_RequestsIsolated ==
    /\ \A r \in Requests :
          requests[r].pc # "none" =>
             LET alone == FoldRecords(Session(FALSE, 0, 0, <<>>),
                                      requests[r].consumed)
             IN  /\ requests[r].out =
                       AloneOut(requests[r].message_id, requests[r].consumed,
                                requests[r].pc = "finished")
                 /\ requests[r].content_started = alone.content_started
                 /\ requests[r].input_tokens = alone.input_tokens
                 /\ requests[r].output_tokens = alone.output_tokens
    /\ \A r, q \in Requests :
          (r # q /\ requests[r].pc # "none" /\ requests[q].pc # "none") =>
             /\ requests[r].pid # requests[q].pid
             /\ requests[r].message_id # requests[q].message_id

C38_Witness ==
    /\ requests[1].pc = "streaming"
    /\ requests[2].pc = "streaming"
    /\ requests[1].consumed = << DeltaRecord(<<"a", " ", "b">>),
                                 DeltaRecord(<<"a", " ", "b">>) >>
    /\ requests[2].consumed =
          << MessageDeltaRecord([input_tokens |-> 5, output_tokens |-> 10]) >>
    /\ requests[1].content_started
    /\ ~requests[2].content_started
    /\ requests[1].output_tokens = 4
    /\ requests[2].output_tokens = 10

\* the texts of the deltas that the record makes the translator send
TextsOf(chunk) ==
    DeltaTexts(ProcessRecord(Session(TRUE, 0, 0, <<>>), chunk).frames)

RECURSIVE WordsIn(_)
WordsIn(texts) ==
    IF texts = <<>> THEN 0 ELSE WordCount(Head(texts)) + WordsIn(Tail(texts))

\* the words of the deltas sent for the records after the i-th
RECURSIVE WordsAfter(_, _)
WordsAfter(records, i) ==
    IF i >= Len(records)
    THEN 0
    ELSE WordsIn(TextsOf(records[i + 1])) + WordsAfter(records, i + 1)

\* the records whose usage object supplies output_tokens
OutputSuppliers(records) ==
    {i \in UsageIndexes(records) : "output_tokens" \in DOMAIN UsageOf(records[i])}

ExpectedOutputTokens(records) ==
    IF OutputSuppliers(records) = {}
    THEN WordsAfter(records, 0)
    ELSE LET last == CHOOSE i \in OutputSuppliers(records) :
                        \A j \in OutputSuppliers(records) : j <= i
         IN  UsageOf(records[last]).output_tokens + WordsAfter(records, last)

(* C39: the output_tokens of the final message_delta is the output_tokens of  *)
(* the last usage object that carried one (0 if none did) plus the number of  *)
(* whitespace-separated words of the text deltas sent after that usage        *)
(* object; the deltas sent before it add nothing.                             *)
C39_OutputTokens ==
    exit = "normal" =>
        FinalMessageDelta(out).output_tokens = ExpectedOutputTokens(consumed)

C39_Witness ==
    /\ exit = "normal"
    /\ consumed = << DeltaRecord(<<"a", " ", "b">>),
                     MessageDeltaRecord([output_tokens |-> 25]),
                     DeltaRecord(<<"a", " ", "b">>) >>
    /\ FinalMessageDelta(out).output_tokens = 27

=============================================================================
